-------------------------- MODULE ContainerProofs --------------------------
(***************************************************************************)
(* The three containers of the library that threads and parsers fill: the  *)
(* queue templates of frame/, the arrays of Json::Value and the linked     *)
(* nodes of TinyXML.                                                       *)
(*                                                                         *)
(* The queues, for any number of producers and consumers, any size and any *)
(* number of calls.  NoLostWakeup is inductive beside the types once it is *)
(* known that nobody waits to put into a BlockingQueue.  Capacity is not:  *)
(* a woken producer of a CircularQueue pushes without looking, so it holds *)
(* a place already.  The invariant counts the woken producers with the     *)
(* items.  FifoExactlyOnce stands on the order of what was put: taken and  *)
(* queue, one after the other, are that order, or what a CircularQueue     *)
(* left of it.                                                             *)
(*                                                                         *)
(* The JSON arrays, for any values, names and lengths and any machine      *)
(* word.  ArrayIsList is not inductive: an array is a map from the indexes *)
(* that were touched, and its size is right only while its last index is   *)
(* one of them.  The invariant says so, says it fails once the assertion   *)
(* of resize did, and keeps every value of the document well formed.       *)
(*                                                                         *)
(* The nodes, for any number of them and any contents.  LinksAgree says    *)
(* what a reader follows; that a call keeps it needs to know what a        *)
(* destructor takes down.  Below is the least set its walk reaches, and    *)
(* in a Forest, where the parents of every node end at a root, that is the *)
(* node's own subtree: no call frees a node that something else links to.  *)
(* A clone is the copy of such a subtree into places that were free.       *)
(***************************************************************************)
EXTENDS CondQueue, JsonBuild, XmlBuild, DataLemmas, FiniteSetTheorems, SequenceTheorems, TLAPS

-----------------------------------------------------------------------------
(* The queue templates.                                                    *)

\* A producer in a call has counted it.
CalledIfBusy == \A p \in Producer : phase[p] # "idle" => calls[p] # 0

\* put of a BlockingQueue never waits.
BlockingPutsAtOnce == kind = "blocking" => \A p \in Producer : phase[p] = "idle"

\* While a consumer waits, every item has a woken consumer; the same for the
\* producers and the free places.
ItemsHaveTakers ==
    In(Consumer, "waiting") # {} => Len(queue) <= Cardinality(In(Consumer, "woken"))

PlacesHavePutters ==
    In(Producer, "waiting") # {} =>
        Size <= Len(queue) + Cardinality(In(Producer, "woken"))

\* A woken producer of a CircularQueue counts as an item.
PlacesTaken ==
    /\ kind = "bound" => Len(queue) <= Size
    /\ kind = "circular" =>
           Len(queue) + Cardinality(In(Producer, "woken")) + 1
               <= Size + Cardinality(Producer) + spurious

TInv == TypeOK /\ CalledIfBusy /\ BlockingPutsAtOnce

IInv == TInv /\ ItemsHaveTakers /\ PlacesHavePutters /\ PlacesTaken

-----------------------------------------------------------------------------
(* Facts about sets of threads.                                            *)

\* The numbers the constants stand for.
LEMMA ConstantFacts ==
    /\ Size \in Nat /\ Size > 0
    /\ MaxPut \in Nat /\ MaxSpurious \in Nat
    /\ IsFiniteSet(Producer) /\ IsFiniteSet(Consumer)
    /\ Cardinality(Producer) \in Nat /\ Cardinality(Consumer) \in Nat
    /\ Producer \cap Consumer = {}
    /\ Producer \subseteq Thread /\ Consumer \subseteq Thread
BY CondQueueAssumption, FS_CardinalityType DEF Thread

\* The threads of a role in a phase can be counted.
LEMMA InFinite ==
    ASSUME NEW R, IsFiniteSet(R), NEW ph
    PROVE  /\ IsFiniteSet(In(R, ph)) /\ Cardinality(In(R, ph)) \in Nat
           /\ Cardinality(In(R, ph)) <= Cardinality(R)
BY FS_Subset, FS_CardinalityType DEF In

\* A set of which one member is known to be outside a subset is larger.
LEMMA OneOut ==
    ASSUME NEW R, IsFiniteSet(R), NEW S \in SUBSET R, NEW x \in R \ S
    PROVE  /\ Cardinality(S) \in Nat /\ Cardinality(R) \in Nat
           /\ Cardinality(S) + 1 <= Cardinality(R)
<1>1. IsFiniteSet(S) /\ IsFiniteSet(R \ {x})
  BY FS_Subset
<1>2. Cardinality(R \ {x}) = Cardinality(R) - 1
  BY FS_RemoveElement
<1>3. Cardinality(S) <= Cardinality(R \ {x})
  BY <1>1, FS_Subset
<1> QED
  BY <1>1, <1>2, <1>3, FS_CardinalityType

\* One thread t of the role R moves: the count of the woken changes by it.
LEMMA OneMoves ==
    ASSUME NEW R, IsFiniteSet(R), NEW t \in R,
           \A u \in R : u # t => phase'[u] = phase[u]
    PROVE  LET n == Cardinality(In(R, "woken"))
               m == Cardinality(In(R, "woken"))'
           IN  /\ n \in Nat /\ m \in Nat
               /\ phase[t] # "woken" /\ phase'[t] = "woken" => m = n + 1
               /\ phase[t] = "woken" /\ phase'[t] # "woken" => m = n - 1
               /\ (phase[t] = "woken" <=> phase'[t] = "woken") => m = n
<1> DEFINE A == In(R, "woken")
           B == {u \in R : phase'[u] = "woken"}
<1>0. In(R, "woken")' = B
  BY DEF In
<1>1. IsFiniteSet(A) /\ IsFiniteSet(B) /\ Cardinality(A) \in Nat /\ Cardinality(B) \in Nat
  BY FS_Subset, FS_CardinalityType DEF In
<1>2. CASE phase[t] # "woken" /\ phase'[t] = "woken"
  <2>1. t \notin A /\ B = A \cup {t}
    BY <1>2 DEF In
  <2> QED
    BY <1>0, <1>1, <1>2, <2>1, FS_AddElement
<1>3. CASE phase[t] = "woken" /\ phase'[t] # "woken"
  <2>1. t \in A /\ B = A \ {t}
    BY <1>3 DEF In
  <2> QED
    BY <1>0, <1>1, <1>3, <2>1, FS_RemoveElement
<1>4. CASE phase[t] = "woken" <=> phase'[t] = "woken"
  <2>1. B = A
    BY <1>4 DEF In
  <2> QED
    BY <1>0, <1>1, <1>4, <2>1
<1> QED
  BY <1>2, <1>3, <1>4

\* No thread of the role R moves.
LEMMA NoneMoves ==
    ASSUME NEW R, \A u \in R : phase'[u] = phase[u]
    PROVE  /\ In(R, "woken")' = In(R, "woken")
           /\ In(R, "waiting")' = In(R, "waiting")
BY DEF In

-----------------------------------------------------------------------------
(* The types.                                                              *)

\* SetPhase changes the phase of one thread.
LEMMA SetPhaseFacts ==
    ASSUME TypeOK, NEW t \in Thread, NEW ph \in Phase
    PROVE  /\ SetPhase(t, ph) \in [Thread -> Phase]
           /\ \A u \in Thread : SetPhase(t, ph)[u] = IF u = t THEN ph ELSE phase[u]
BY DEF TypeOK, SetPhase

\* The phases a thread of the queues is in.
LEMMA PhaseFacts == Phase = {"idle", "waiting", "woken", "timedout"}
BY DEF Phase

\* A notify wakes a waiting thread of R or nobody.
LEMMA NotifyWakes ==
    ASSUME NEW R, NEW ph \in [Thread -> Phase], R \subseteq Thread, Notify(ph, R)
    PROVE  /\ phase' \in [Thread -> Phase]
           /\ \A u \in Thread : u \notin R => phase'[u] = ph[u]
           /\ \A u \in Thread : phase'[u] # ph[u] => phase'[u] = "woken"
BY DEF Notify, Phase

\* The empty queue.
LEMMA InitInv == Init => IInv
<1> SUFFICES ASSUME Init PROVE IInv
  OBVIOUS
<1> USE ConstantFacts
<1>1. TInv
  BY DEF Init, TInv, TypeOK, Phase, CalledIfBusy, BlockingPutsAtOnce, Thread
<1>2. \A R, ph : R \subseteq Thread /\ ph # "idle" => In(R, ph) = {}
  BY DEF Init, In
<1>3. ItemsHaveTakers /\ PlacesHavePutters
  BY <1>2 DEF ItemsHaveTakers, PlacesHavePutters
<1>4. Cardinality(In(Producer, "woken")) = 0
  BY <1>2, FS_EmptySet
<1>5. Cardinality(Producer) # 0
  BY FS_EmptySet, CondQueueAssumption
<1>6. PlacesTaken
  BY <1>4, <1>5 DEF PlacesTaken, Init
<1> QED
  BY <1>1, <1>3, <1>6 DEF IInv

\* What a push does to the types: the item is put at the end of old.
LEMMA PushTypes ==
    ASSUME TInv, NEW p \in Producer, NEW old \in Seq(Item), NEW item \in Item,
           Push(p, old, item)
    PROVE  /\ queue' \in Seq(Item) /\ accepted' \in Seq(Item)
           /\ phase' \in [Thread -> Phase]
           /\ \A q \in Producer : phase'[q] = IF q = p THEN "idle" ELSE phase[q]
           /\ UNCHANGED <<kind, spurious, taken>>
<1>1. /\ SetPhase(p, "idle") \in [Thread -> Phase]
      /\ \A u \in Thread : SetPhase(p, "idle")[u] = IF u = p THEN "idle" ELSE phase[u]
  BY SetPhaseFacts, PhaseFacts, ConstantFacts DEF TInv
<1>2. /\ phase' \in [Thread -> Phase]
      /\ \A u \in Thread : u \notin Consumer => phase'[u] = SetPhase(p, "idle")[u]
  BY <1>1, NotifyWakes, ConstantFacts DEF Push
<1>3. queue' \in Seq(Item) /\ accepted' \in Seq(Item)
  BY DEF Push, TInv, TypeOK
<1> QED
  BY <1>1, <1>2, <1>3, ConstantFacts DEF Push

\* The type invariant from its parts.
LEMMA TypeStep == TInv /\ [Next]_vars => TInv'
<1> SUFFICES ASSUME TInv, [Next]_vars PROVE TInv'
  OBVIOUS
<1> USE ConstantFacts, PhaseFacts DEF TInv
<1>1. ASSUME NEW p \in Producer, PutWaits(p) \/ PutGivesUp(p) PROVE TInv'
  <2>1. /\ phase' \in [Thread -> Phase]
        /\ \A q \in Producer : q # p => phase'[q] = phase[q]
        /\ PutWaits(p) => kind # "blocking"
        /\ PutGivesUp(p) => phase'[p] = "idle"
    BY <1>1, SetPhaseFacts DEF PutWaits, PutGivesUp, Full
  <2>2. /\ calls' \in [Producer -> 0 .. MaxPut]
        /\ \A q \in Producer : calls[q] # 0 => calls'[q] # 0
        /\ PutWaits(p) => calls'[p] # 0
    BY <1>1 DEF PutWaits, PutGivesUp, CountCall, AtSizeTest, TypeOK, CalledIfBusy
  <2>3. UNCHANGED <<kind, queue, spurious, accepted, taken>>
    BY <1>1 DEF PutWaits, PutGivesUp
  <2> QED
    BY <1>1, <2>1, <2>2, <2>3 DEF TypeOK, CalledIfBusy, BlockingPutsAtOnce, PutGivesUp
<1>2. ASSUME NEW p \in Producer, PutPushes(p) PROVE TInv'
  <2>1. /\ calls' \in [Producer -> 0 .. MaxPut] /\ calls'[p] \in 1 .. MaxPut
        /\ \A q \in Producer : calls[q] # 0 => calls'[q] # 0
    BY <1>2 DEF PutPushes, CountCall, TypeOK, CalledIfBusy
  <2>2. <<p, calls'[p]>> \in Item
    BY <2>1 DEF Item
  <2>3. /\ queue' \in Seq(Item) /\ accepted' \in Seq(Item)
        /\ phase' \in [Thread -> Phase]
        /\ \A q \in Producer : phase'[q] = IF q = p THEN "idle" ELSE phase[q]
        /\ UNCHANGED <<kind, spurious, taken>>
    BY <1>2, <2>2, PushTypes DEF PutPushes, TypeOK
  <2> QED
    BY <2>1, <2>3 DEF TypeOK, CalledIfBusy, BlockingPutsAtOnce
<1>3. ASSUME NEW p \in Producer, PutEvicts(p) PROVE TInv'
  <2>1. calls[p] \in 1 .. MaxPut
    BY <1>3 DEF PutEvicts, TypeOK, CalledIfBusy
  <2>2. PutItem(p) \in Item
    BY <2>1 DEF PutItem, Item
  <2>3. Evicted \in Seq(Item)
    BY SubSeqProperties DEF Evicted, TypeOK
  <2>4. /\ queue' \in Seq(Item) /\ accepted' \in Seq(Item)
        /\ phase' \in [Thread -> Phase]
        /\ \A q \in Producer : phase'[q] = IF q = p THEN "idle" ELSE phase[q]
        /\ UNCHANGED <<kind, spurious, taken>>
    BY <1>3, <2>2, <2>3, PushTypes DEF PutEvicts
  <2> QED
    BY <1>3, <2>4 DEF PutEvicts, TypeOK, CalledIfBusy, BlockingPutsAtOnce
<1>4. ASSUME NEW c \in Consumer, TakeWaits(c) \/ TakeGivesUp(c) PROVE TInv'
  <2>1. /\ phase' \in [Thread -> Phase]
        /\ \A q \in Producer : phase'[q] = phase[q]
    BY <1>4, SetPhaseFacts DEF TakeWaits, TakeGivesUp
  <2> QED
    BY <1>4, <2>1 DEF TakeWaits, TakeGivesUp, TypeOK, CalledIfBusy, BlockingPutsAtOnce
<1>5. ASSUME NEW c \in Consumer, TakePops(c) PROVE TInv'
  <2>1. taken' \in Seq(Item) /\ queue' \in Seq(Item)
    BY <1>5, HeadTailProperties DEF TakePops, TypeOK
  <2>2. /\ SetPhase(c, "idle") \in [Thread -> Phase]
        /\ \A u \in Thread : SetPhase(c, "idle")[u] = IF u = c THEN "idle" ELSE phase[u]
    BY SetPhaseFacts
  <2>3. /\ phase' \in [Thread -> Phase]
        /\ \A q \in Producer : phase'[q] # "idle" => phase[q] # "idle"
    BY <1>5, <2>2 DEF TakePops, Notify
  <2> QED
    BY <1>5, <2>1, <2>3 DEF TakePops, TypeOK, CalledIfBusy, BlockingPutsAtOnce
<1>6. ASSUME NEW t \in Thread, TimesOut(t) \/ WakesUp(t) PROVE TInv'
  <2>1. /\ phase' \in [Thread -> Phase]
        /\ \A u \in Thread : phase'[u] # "idle" <=> phase[u] # "idle"
    BY <1>6, SetPhaseFacts DEF TimesOut, WakesUp
  <2>2. spurious' \in 0 .. MaxSpurious
    BY <1>6 DEF TimesOut, WakesUp, TypeOK
  <2> QED
    BY <1>6, <2>1, <2>2 DEF TimesOut, WakesUp, TypeOK, CalledIfBusy, BlockingPutsAtOnce
<1>7. CASE UNCHANGED vars
  BY <1>7 DEF vars, TypeOK, CalledIfBusy, BlockingPutsAtOnce
<1> QED
  BY <1>1, <1>2, <1>3, <1>4, <1>5, <1>6, <1>7 DEF Next, Put, Take

-----------------------------------------------------------------------------
(* The wake-ups and the capacity.                                          *)

\* A notify raises the number of woken threads of R if any of them waits.
LEMMA NotifyCounts ==
    ASSUME NEW R \in SUBSET Thread, IsFiniteSet(R), NEW ph \in [Thread -> Phase],
           \A u \in R : ph[u] = phase[u], Notify(ph, R)
    PROVE  LET n == Cardinality(In(R, "woken"))
               m == Cardinality(In(R, "woken"))'
           IN  /\ n \in Nat /\ m \in Nat
               /\ \/ m = n + 1
                  \/ m = n /\ In(R, "waiting") = {} /\ In(R, "waiting")' = {}
<1>1. CASE \E t \in R : ph[t] = "waiting" /\ phase' = [ph EXCEPT ![t] = "woken"]
  <2>1. PICK t \in R : ph[t] = "waiting" /\ phase' = [ph EXCEPT ![t] = "woken"]
    BY <1>1
  <2>2. /\ \A u \in R : u # t => phase'[u] = phase[u]
        /\ phase[t] # "woken" /\ phase'[t] = "woken"
    BY <2>1
  <2> QED
    BY <2>2, OneMoves
<1>2. CASE (\A t \in R : ph[t] # "waiting") /\ phase' = ph
  <2>1. In(R, "waiting") = {} /\ \A u \in R : phase'[u] = phase[u]
    BY <1>2 DEF In
  <2> QED
    BY <2>1, NoneMoves, InFinite
<1> QED
  BY <1>1, <1>2 DEF Notify

\* The number of threads of each role that are woken, before and after a step.
nP == Cardinality(In(Producer, "woken"))
nC == Cardinality(In(Consumer, "woken"))

\* What a push does to the counts.
LEMMA PushCounts ==
    ASSUME TInv, NEW p \in Producer, NEW old \in Seq(Item), NEW item \in Item,
           Push(p, old, item), phase[p] # "waiting"
    PROVE  /\ Len(queue') = Len(old) + 1 /\ UNCHANGED <<kind, spurious>>
           /\ nP \in Nat /\ nP' \in Nat /\ nC \in Nat /\ nC' \in Nat
           /\ nP' = IF phase[p] = "woken" THEN nP - 1 ELSE nP
           /\ In(Producer, "waiting")' = In(Producer, "waiting")
           /\ In(Consumer, "waiting")' # {} => nC' = nC + 1 /\ In(Consumer, "waiting") # {}
<1>1. /\ SetPhase(p, "idle") \in [Thread -> Phase]
      /\ \A u \in Thread : SetPhase(p, "idle")[u] = IF u = p THEN "idle" ELSE phase[u]
  BY SetPhaseFacts, PhaseFacts, ConstantFacts DEF TInv
<1>2. \A q \in Producer : phase'[q] = IF q = p THEN "idle" ELSE phase[q]
  BY PushTypes
<1>3. In(Producer, "waiting")' = In(Producer, "waiting")
  BY <1>2 DEF In
<1>4. /\ nP \in Nat /\ nP' \in Nat
      /\ nP' = IF phase[p] = "woken" THEN nP - 1 ELSE nP
  BY <1>2, OneMoves, ConstantFacts DEF nP
<1>5. Notify(SetPhase(p, "idle"), Consumer)
  BY DEF Push
<1>6. /\ nC \in Nat /\ nC' \in Nat
      /\ \/ nC' = nC + 1
         \/ nC' = nC /\ In(Consumer, "waiting") = {} /\ In(Consumer, "waiting")' = {}
  BY <1>1, <1>5, NotifyCounts, ConstantFacts DEF nC
<1>7. In(Consumer, "waiting")' # {} => In(Consumer, "waiting") # {}
  BY <1>1, <1>5, ConstantFacts DEF In, Notify
<1> QED
  BY <1>3, <1>4, <1>6, <1>7 DEF Push

\* A step that moves one thread without a notify and leaves the queue alone.
LEMMA MoveCounts ==
    ASSUME TInv, NEW t \in Thread, NEW to \in Phase, phase' = SetPhase(t, to),
           to # "waiting"
    PROVE  /\ nP \in Nat /\ nP' \in Nat /\ nC \in Nat /\ nC' \in Nat
           /\ In(Producer, "waiting")' \subseteq In(Producer, "waiting")
           /\ In(Consumer, "waiting")' \subseteq In(Consumer, "waiting")
           /\ t \notin Producer \/ (phase[t] # "woken" /\ to # "woken") => nP' = nP
           /\ t \notin Consumer \/ (phase[t] # "woken" /\ to # "woken") => nC' = nC
           /\ phase[t] = "waiting" /\ to = "woken" => nP' \in {nP, nP + 1} /\ nC' \in {nC, nC + 1}
<1>1. \A u \in Thread : phase'[u] = IF u = t THEN to ELSE phase[u]
  BY SetPhaseFacts DEF TInv
<1>2. /\ In(Producer, "waiting")' \subseteq In(Producer, "waiting")
      /\ In(Consumer, "waiting")' \subseteq In(Consumer, "waiting")
  BY <1>1, ConstantFacts DEF In
<1>3. CASE t \in Producer
  <2>1. t \notin Consumer /\ \A u \in Consumer : phase'[u] = phase[u]
    BY <1>1, <1>3, ConstantFacts
  <2>2. nC' = nC /\ nC \in Nat
    BY <2>1, NoneMoves, InFinite, ConstantFacts DEF nC
  <2>3. /\ nP \in Nat /\ nP' \in Nat
        /\ phase[t] # "woken" /\ to = "woken" => nP' = nP + 1
        /\ phase[t] # "woken" /\ to # "woken" => nP' = nP
    BY <1>1, <1>3, OneMoves, ConstantFacts DEF nP
  <2> QED
    BY <1>2, <1>3, <2>1, <2>2, <2>3
<1>4. CASE t \in Consumer
  <2>1. t \notin Producer /\ \A u \in Producer : phase'[u] = phase[u]
    BY <1>1, <1>4, ConstantFacts
  <2>2. nP' = nP /\ nP \in Nat
    BY <2>1, NoneMoves, InFinite, ConstantFacts DEF nP
  <2>3. /\ nC \in Nat /\ nC' \in Nat
        /\ phase[t] # "woken" /\ to = "woken" => nC' = nC + 1
        /\ phase[t] # "woken" /\ to # "woken" => nC' = nC
    BY <1>1, <1>4, OneMoves, ConstantFacts DEF nC
  <2> QED
    BY <1>2, <1>4, <2>1, <2>2, <2>3
<1> QED
  BY <1>3, <1>4 DEF Thread

\* The three counting conjuncts in terms of the numbers.
Counted ==
    /\ In(Consumer, "waiting") # {} => Len(queue) <= nC
    /\ In(Producer, "waiting") # {} => Size <= Len(queue) + nP
    /\ kind = "bound" => Len(queue) <= Size
    /\ kind = "circular" => Len(queue) + nP + 1 <= Size + Cardinality(Producer) + spurious

\* The counting parts of the invariant, over the two numbers of woken threads.
LEMMA CountedMeans == Counted <=> ItemsHaveTakers /\ PlacesHavePutters /\ PlacesTaken
BY DEF Counted, ItemsHaveTakers, PlacesHavePutters, PlacesTaken, nP, nC

\* The same after a step.
LEMMA CountedMeansPrimed ==
    Counted' <=> ItemsHaveTakers' /\ PlacesHavePutters' /\ PlacesTaken'
BY DEF Counted, ItemsHaveTakers, PlacesHavePutters, PlacesTaken, nP, nC

\* What is counted is a number, and a producer that is not woken is one more.
LEMMA NumberFacts ==
    ASSUME TInv
    PROVE  /\ Len(queue) \in Nat /\ spurious \in Nat /\ nP \in Nat /\ nC \in Nat
           /\ nP <= Cardinality(Producer)
           /\ \A p \in Producer : phase[p] # "woken" => nP + 1 <= Cardinality(Producer)
<1>1. Len(queue) \in Nat /\ spurious \in Nat
  BY ConstantFacts DEF TInv, TypeOK
<1>2. nP \in Nat /\ nC \in Nat /\ nP <= Cardinality(Producer)
  BY InFinite, ConstantFacts DEF nP, nC
<1>3. ASSUME NEW p \in Producer, phase[p] # "woken" PROVE nP + 1 <= Cardinality(Producer)
  <2>1. In(Producer, "woken") \in SUBSET Producer /\ p \in Producer \ In(Producer, "woken")
    BY <1>3 DEF In
  <2> QED
    BY <2>1, OneOut, ConstantFacts DEF nP
<1> QED
  BY <1>1, <1>2, <1>3

\* Every step keeps the counts.
LEMMA CountedStep == TInv /\ Counted /\ [Next]_vars => Counted'
<1> SUFFICES ASSUME TInv, Counted, [Next]_vars PROVE Counted'
  OBVIOUS
<1> USE ConstantFacts, NumberFacts
<1>1. ASSUME NEW p \in Producer, PutWaits(p) PROVE Counted'
  <2>1. \A u \in Thread : phase'[u] = IF u = p THEN "waiting" ELSE phase[u]
    BY <1>1, SetPhaseFacts, PhaseFacts DEF PutWaits, TInv
  <2>2. /\ nP \in Nat /\ nP' \in Nat
        /\ nP' = IF phase[p] = "woken" THEN nP - 1 ELSE nP
    BY <2>1, OneMoves DEF nP
  <2>3. nC' = nC /\ In(Consumer, "waiting")' = In(Consumer, "waiting")
    <3>1. \A u \in Consumer : phase'[u] = phase[u]
      BY <2>1
    <3> QED
      BY <3>1, NoneMoves DEF nC
  <2>4. Size <= Len(queue) /\ UNCHANGED <<kind, queue, spurious>>
    BY <1>1 DEF PutWaits, Full
  <2> QED
    BY <2>2, <2>3, <2>4 DEF Counted
<1>2. ASSUME NEW p \in Producer, PutPushes(p) PROVE Counted'
  <2>1. /\ <<p, calls'[p]>> \in Item /\ queue \in Seq(Item)
        /\ phase[p] # "waiting"
        /\ phase[p] = "woken" \/ phase[p] = "idle"
        /\ phase[p] = "woken" => ~Full \/ kind = "circular"
        /\ phase[p] = "idle" => ~Full
    BY <1>2 DEF PutPushes, AtSizeTest, CountCall, TInv, TypeOK, CalledIfBusy, Item
  <2>2. /\ Len(queue') = Len(queue) + 1 /\ UNCHANGED <<kind, spurious>>
        /\ nP \in Nat /\ nP' \in Nat /\ nC \in Nat /\ nC' \in Nat
        /\ nP' = IF phase[p] = "woken" THEN nP - 1 ELSE nP
        /\ In(Producer, "waiting")' = In(Producer, "waiting")
        /\ In(Consumer, "waiting")' # {} => nC' = nC + 1 /\ In(Consumer, "waiting") # {}
    BY <1>2, <2>1, PushCounts DEF PutPushes
  <2>3. In(Consumer, "waiting")' # {} => Len(queue') <= nC'
    BY <2>2 DEF Counted
  <2>4. In(Producer, "waiting")' # {} => Size <= Len(queue') + nP'
    BY <2>2 DEF Counted
  <2>5. kind' = "bound" => Len(queue') <= Size
    BY <2>1, <2>2 DEF Full
  <2>6. ASSUME kind' = "circular"
        PROVE  Len(queue') + nP' + 1 <= Size + Cardinality(Producer) + spurious'
    <3>1. CASE phase[p] = "woken"
      BY <2>2, <2>6, <3>1 DEF Counted
    <3>2. CASE phase[p] = "idle"
      <4>1. nP + 1 <= Cardinality(Producer) /\ nP' = nP
        BY <2>2, <3>2
      <4>2. Len(queue) < Size
        BY <2>1, <2>2, <2>6, <3>2 DEF Full
      <4> QED
        BY <2>2, <4>1, <4>2
    <3> QED
      BY <2>1, <3>1, <3>2
  <2> QED
    BY <2>3, <2>4, <2>5, <2>6 DEF Counted
<1>3. ASSUME NEW p \in Producer, PutEvicts(p) PROVE Counted'
  <2>1. /\ PutItem(p) \in Item /\ phase[p] = "timedout" /\ kind = "circular"
    BY <1>3 DEF PutEvicts, PutItem, TInv, TypeOK, CalledIfBusy, Item
  <2>2. /\ Evicted \in Seq(Item) /\ Len(Evicted) <= Len(queue)
        /\ Len(Evicted) = IF Len(queue) >= Size THEN Size - 1 ELSE Len(queue)
    BY SubSeqProperties DEF Evicted, TInv, TypeOK
  <2>3. /\ Len(queue') = Len(Evicted) + 1 /\ UNCHANGED <<kind, spurious>>
        /\ nP \in Nat /\ nP' \in Nat /\ nC \in Nat /\ nC' \in Nat /\ nP' = nP
        /\ In(Producer, "waiting")' = In(Producer, "waiting")
        /\ In(Consumer, "waiting")' # {} => nC' = nC + 1 /\ In(Consumer, "waiting") # {}
    BY <1>3, <2>1, <2>2, PushCounts DEF PutEvicts
  <2>4. nP + 1 <= Cardinality(Producer)
    BY <2>1
  <2>5. Len(queue') \in Nat /\ Len(queue') <= Size
    BY <2>2, <2>3
  <2>6. In(Consumer, "waiting")' # {} => Len(queue') <= nC'
    <3>1. Len(queue') <= Len(queue) + 1
      BY <2>2, <2>3
    <3> QED
      BY <2>3, <2>5, <3>1 DEF Counted
  <2>7. In(Producer, "waiting")' # {} => Size <= Len(queue') + nP'
    <3>1. Len(queue') = Size \/ Len(queue') = Len(queue) + 1
      BY <2>2, <2>3
    <3> QED
      BY <2>3, <2>5, <3>1 DEF Counted
  <2>8. Len(queue') + nP' + 1 <= Size + Cardinality(Producer) + spurious'
    BY <2>3, <2>4, <2>5
  <2> QED
    BY <2>1, <2>3, <2>5, <2>6, <2>7, <2>8 DEF Counted
<1>4. ASSUME NEW c \in Consumer, TakeWaits(c) PROVE Counted'
  <2>1. \A u \in Thread : phase'[u] = IF u = c THEN "waiting" ELSE phase[u]
    BY <1>4, SetPhaseFacts, PhaseFacts DEF TakeWaits, TInv
  <2>2. nC' \in Nat
    BY <2>1, OneMoves DEF nC
  <2>3. nP' = nP /\ In(Producer, "waiting")' = In(Producer, "waiting")
    <3>1. \A u \in Producer : phase'[u] = phase[u]
      BY <2>1
    <3> QED
      BY <3>1, NoneMoves DEF nP
  <2>4. Len(queue) = 0 /\ UNCHANGED <<kind, queue, spurious>>
    BY <1>4 DEF TakeWaits
  <2> QED
    BY <2>2, <2>3, <2>4 DEF Counted
<1>5. ASSUME NEW c \in Consumer, TakePops(c) PROVE Counted'
  <2>1. /\ SetPhase(c, "idle") \in [Thread -> Phase]
        /\ \A u \in Thread : SetPhase(c, "idle")[u] = IF u = c THEN "idle" ELSE phase[u]
    BY SetPhaseFacts, PhaseFacts DEF TInv
  <2>2. /\ phase[c] \in {"idle", "woken"}
        /\ Len(queue') = Len(queue) - 1 /\ UNCHANGED <<kind, spurious>>
    BY <1>5, HeadTailProperties DEF TakePops, AtEmptyTest, TInv, TypeOK
  <2>3. /\ \A u \in Consumer : phase'[u] = IF u = c THEN "idle" ELSE phase[u]
        /\ phase' = SetPhase(c, "idle") \/ Notify(SetPhase(c, "idle"), Producer)
        /\ kind # "blocking" => Notify(SetPhase(c, "idle"), Producer)
    BY <1>5, <2>1 DEF TakePops, Notify
  <2>4. /\ nC \in Nat /\ nC' \in Nat /\ nC - 1 <= nC'
        /\ In(Consumer, "waiting")' = In(Consumer, "waiting")
    <3>1. nC \in Nat /\ nC' \in Nat /\ nC - 1 <= nC'
      BY <2>2, <2>3, OneMoves DEF nC
    <3>2. In(Consumer, "waiting")' = In(Consumer, "waiting")
      BY <2>2, <2>3 DEF In
    <3> QED
      BY <3>1, <3>2
  <2>5. CASE kind = "blocking"
    <3>1. In(Producer, "waiting")' = {}
      BY <1>5, <2>1, <2>5 DEF TakePops, TInv, BlockingPutsAtOnce, In
    <3> QED
      BY <2>2, <2>4, <2>5, <3>1 DEF Counted
  <2>6. CASE kind # "blocking"
    <3>1. /\ nP' \in Nat
          /\ \/ nP' = nP + 1
             \/ nP' = nP /\ In(Producer, "waiting") = {} /\ In(Producer, "waiting")' = {}
      BY <2>1, <2>3, <2>6, NotifyCounts DEF nP
    <3>2. In(Producer, "waiting")' # {} => In(Producer, "waiting") # {}
      BY <2>1, <2>3, <2>6 DEF In, Notify
    <3>3. In(Consumer, "waiting")' # {} => Len(queue') <= nC'
      BY <2>2, <2>4 DEF Counted
    <3>4. In(Producer, "waiting")' # {} => Size <= Len(queue') + nP'
      BY <2>2, <3>1, <3>2 DEF Counted
    <3>5. kind' = "bound" => Len(queue') <= Size
      BY <2>2 DEF Counted
    <3>6. kind' = "circular" =>
              Len(queue') + nP' + 1 <= Size + Cardinality(Producer) + spurious'
      <4> SUFFICES ASSUME kind' = "circular"
                   PROVE  Len(queue') + nP' + 1 <= Size + Cardinality(Producer) + spurious'
        OBVIOUS
      <4>1. Len(queue) + nP + 1 <= Size + Cardinality(Producer) + spurious
        BY <2>2 DEF Counted
      <4>2. Len(queue') = Len(queue) - 1 /\ spurious' = spurious /\ (nP' = nP + 1 \/ nP' = nP)
        BY <2>2, <3>1
      <4> QED
        BY <4>1, <4>2
    <3> QED
      BY <3>3, <3>4, <3>5, <3>6 DEF Counted
  <2> QED
    BY <2>5, <2>6
<1>6. ASSUME NEW t \in Thread,
             \/ t \in Producer /\ PutGivesUp(t)
             \/ t \in Consumer /\ TakeGivesUp(t)
             \/ TimesOut(t)
      PROVE Counted'
  <2>1. \E to \in {"idle", "timedout"} :
            phase' = SetPhase(t, to) /\ phase[t] # "woken"
    BY <1>6 DEF PutGivesUp, TakeGivesUp, TimesOut
  <2>2. UNCHANGED <<kind, queue, spurious>>
    BY <1>6 DEF PutGivesUp, TakeGivesUp, TimesOut
  <2>3. /\ nP' = nP /\ nC' = nC
        /\ In(Producer, "waiting")' \subseteq In(Producer, "waiting")
        /\ In(Consumer, "waiting")' \subseteq In(Consumer, "waiting")
    BY <2>1, MoveCounts, PhaseFacts
  <2> QED
    BY <2>2, <2>3 DEF Counted
<1>7. ASSUME NEW t \in Thread, WakesUp(t) PROVE Counted'
  <2>1. /\ nP' \in {nP, nP + 1} /\ nC' \in {nC, nC + 1}
        /\ In(Producer, "waiting")' \subseteq In(Producer, "waiting")
        /\ In(Consumer, "waiting")' \subseteq In(Consumer, "waiting")
    BY <1>7, MoveCounts, PhaseFacts DEF WakesUp
  <2>2. spurious' = spurious + 1 /\ UNCHANGED <<kind, queue>>
    BY <1>7 DEF WakesUp
  <2> QED
    BY <2>1, <2>2 DEF Counted
<1>8. CASE UNCHANGED vars
  BY <1>8 DEF vars, Counted, nP, nC, In
<1> QED
  BY <1>1, <1>2, <1>3, <1>4, <1>5, <1>6, <1>7, <1>8 DEF Next, Put, Take, Thread

\* Every step keeps the invariant.
LEMMA InvStep == IInv /\ [Next]_vars => IInv'
BY TypeStep, CountedStep, CountedMeans, CountedMeansPrimed DEF IInv

\* The inductive invariant: the types, the counts of items and free places.
THEOREM Invariance == Spec => []IInv
BY InitInv, InvStep, PTL DEF Spec

\* The variables keep their types: what is queued and taken was put.
THEOREM TypeCorrect == Spec => []TypeOK
<1>1. IInv => TypeOK
  BY DEF IInv, TInv
<1> QED
  BY Invariance, <1>1, PTL

\* No notify of put and take is lost, with any number of waiters, timeouts and
\* spurious wake-ups.
THEOREM NothingSleepsBesideWork == Spec => []NoLostWakeup
<1>1. IInv => NoLostWakeup
  BY DEF IInv, ItemsHaveTakers, PlacesHavePutters, NoLostWakeup
<1> QED
  BY Invariance, <1>1, PTL

\* A BoundQueue keeps to its size; a CircularQueue exceeds it by less than the
\* number of its producers and the spurious wake-ups.
THEOREM CapacityHolds == Spec => []Capacity
<1>1. IInv => Capacity
  BY NumberFacts, ConstantFacts DEF IInv, PlacesTaken, Capacity, nP
<1> QED
  BY Invariance, <1>1, PTL
-----------------------------------------------------------------------------
(* The order of the items.                                                 *)

\* out is what is left of the sequence all when some of its items are left out.
PartOf(out, all) ==
    \E f \in [1 .. Len(out) -> 1 .. Len(all)] :
        /\ \A i \in 1 .. Len(out) : out[i] = all[f[i]]
        /\ \A i, j \in 1 .. Len(out) : i < j => f[i] < f[j]

Order == IF kind = "circular" THEN PartOf(taken \o queue, accepted) ELSE taken \o queue = accepted

\* The same item is put behind both.
LEMMA PartGrows ==
    ASSUME NEW out \in Seq(Item), NEW all \in Seq(Item), PartOf(out, all), NEW x \in Item
    PROVE  PartOf(Append(out, x), Append(all, x))
<1>1. PICK f \in [1 .. Len(out) -> 1 .. Len(all)] :
          /\ \A i \in 1 .. Len(out) : out[i] = all[f[i]]
          /\ \A i, j \in 1 .. Len(out) : i < j => f[i] < f[j]
  BY DEF PartOf
<1> DEFINE g == [i \in 1 .. Len(out) + 1 |-> IF i = Len(out) + 1 THEN Len(all) + 1 ELSE f[i]]
<1>2. Len(Append(out, x)) = Len(out) + 1 /\ Len(Append(all, x)) = Len(all) + 1
  OBVIOUS
<1>3. g \in [1 .. Len(out) + 1 -> 1 .. Len(all) + 1]
  OBVIOUS
<1>4. ASSUME NEW i \in 1 .. Len(out) + 1 PROVE Append(out, x)[i] = Append(all, x)[g[i]]
  BY <1>1
<1>5. ASSUME NEW i \in 1 .. Len(out) + 1, NEW j \in 1 .. Len(out) + 1, i < j PROVE g[i] < g[j]
  <2>1. i \in 1 .. Len(out) /\ g[i] = f[i] /\ f[i] \in 1 .. Len(all) /\ Len(all) \in Nat
    BY <1>5
  <2>2. CASE j = Len(out) + 1
    BY <2>1, <2>2
  <2>3. CASE j # Len(out) + 1
    <3>1. j \in 1 .. Len(out) /\ g[j] = f[j]
      BY <2>3
    <3>2. f[i] < f[j]
      BY <1>1, <1>5, <2>1, <3>1
    <3> HIDE DEF g
    <3> QED
      BY <2>1, <3>1, <3>2
  <2> QED
    BY <2>2, <2>3
<1> HIDE DEF g
<1> QED
  BY <1>2, <1>3, <1>4, <1>5 DEF PartOf

\* The first n of the items that were not taken are dropped.
LEMMA PartDrops ==
    ASSUME NEW t \in Seq(Item), NEW q \in Seq(Item), NEW all \in Seq(Item), PartOf(t \o q, all),
           NEW n \in 0 .. Len(q)
    PROVE  PartOf(t \o SubSeq(q, n + 1, Len(q)), all)
<1> DEFINE rest == SubSeq(q, n + 1, Len(q))
<1>1. PICK f \in [1 .. Len(t \o q) -> 1 .. Len(all)] :
          /\ \A i \in 1 .. Len(t \o q) : (t \o q)[i] = all[f[i]]
          /\ \A i, j \in 1 .. Len(t \o q) : i < j => f[i] < f[j]
  BY DEF PartOf
<1> DEFINE g == [i \in 1 .. Len(t) + Len(q) - n |-> IF i <= Len(t) THEN f[i] ELSE f[i + n]]
<1>2. /\ rest \in Seq(Item) /\ Len(rest) = Len(q) - n
      /\ \A i \in 1 .. Len(q) - n : rest[i] = q[i + n]
  OBVIOUS
<1> HIDE DEF rest
<1>3. /\ Len(t \o q) = Len(t) + Len(q) /\ Len(t \o rest) = Len(t) + Len(q) - n
      /\ Len(t) \in Nat /\ Len(q) \in Nat
  <2>1. Len(t \o rest) = Len(t) + Len(rest) /\ Len(t \o q) = Len(t) + Len(q)
    BY <1>2, ConcatProperties
  <2>2. Len(t) \in Nat /\ Len(q) \in Nat /\ Len(t) + (Len(q) - n) = Len(t) + Len(q) - n
    OBVIOUS
  <2> QED
    BY <1>2, <2>1, <2>2
<1>4. g \in [1 .. Len(t) + Len(q) - n -> 1 .. Len(all)]
  BY <1>3
<1>5. ASSUME NEW i \in 1 .. Len(t) + Len(q) - n PROVE (t \o rest)[i] = all[g[i]]
  <2>1. CASE i <= Len(t)
    <3>1. (t \o rest)[i] = t[i] /\ (t \o q)[i] = t[i] /\ g[i] = f[i] /\ i \in 1 .. Len(t \o q)
      BY <1>2, <1>3, <1>5, <2>1
    <3> QED
      BY <1>1, <3>1
  <2>2. CASE i > Len(t)
    <3>1. i - Len(t) \in 1 .. Len(q) - n /\ (i - Len(t)) + n = (i + n) - Len(t)
      BY <1>3, <1>5, <2>2
    <3>2. rest[i - Len(t)] = q[(i + n) - Len(t)]
      BY <1>2, <3>1
    <3>3. (t \o rest)[i] = rest[i - Len(t)]
      BY <1>2, <1>3, <1>5, <2>2
    <3>4. (t \o q)[i + n] = q[(i + n) - Len(t)] /\ i + n \in 1 .. Len(t \o q) /\ g[i] = f[i + n]
      BY <1>3, <1>5, <2>2
    <3> QED
      BY <1>1, <3>2, <3>3, <3>4
  <2> QED
    BY <1>3, <2>1, <2>2
<1>6. ASSUME NEW i \in 1 .. Len(t) + Len(q) - n, NEW j \in 1 .. Len(t) + Len(q) - n, i < j
      PROVE  g[i] < g[j]
  BY <1>1, <1>3, <1>6
<1> HIDE DEF g
<1> QED
  BY <1>3, <1>4, <1>5, <1>6 DEF PartOf, rest

\* An item that is pushed comes behind all that were accepted.
LEMMA PushKeepsOrder ==
    ASSUME TypeOK, NEW p, NEW old \in Seq(Item), NEW x \in Item, Push(p, old, x),
           IF kind = "circular" THEN PartOf(taken \o old, accepted) ELSE taken \o old = accepted
    PROVE  Order'
<1>1. /\ queue' = Append(old, x) /\ accepted' = Append(accepted, x)
      /\ taken' = taken /\ kind' = kind
  BY DEF Push
<1>2. taken \in Seq(Item) /\ accepted \in Seq(Item) /\ taken \o old \in Seq(Item)
  BY DEF TypeOK
<1>3. taken \o Append(old, x) = Append(taken \o old, x)
  BY <1>2
<1> QED
  BY <1>1, <1>2, <1>3, PartGrows DEF Order

\* Every step keeps the items in the order of the puts.
LEMMA OrderStep == TypeOK /\ CalledIfBusy /\ Order /\ [Next]_vars => Order'
<1> SUFFICES ASSUME TypeOK, CalledIfBusy, Order, [Next]_vars PROVE Order'
  OBVIOUS
<1>1. ASSUME NEW p \in Producer, PutPushes(p) PROVE Order'
  <2>1. Push(p, queue, <<p, calls'[p]>>) /\ CountCall(p)
    BY <1>1 DEF PutPushes
  <2>2. calls'[p] \in 1 .. MaxPut
    BY <2>1, ConstantFacts DEF CountCall, TypeOK, CalledIfBusy
  <2>3. <<p, calls'[p]>> \in Item
    BY <2>2 DEF Item
  <2> QED
    BY <2>1, <2>3, PushKeepsOrder DEF Order, TypeOK
<1>2. ASSUME NEW p \in Producer, PutEvicts(p) PROVE Order'
  <2>1. kind = "circular" /\ phase[p] = "timedout" /\ Push(p, Evicted, PutItem(p))
    BY <1>2 DEF PutEvicts
  <2>2. PutItem(p) \in Item
    BY <2>1 DEF PutItem, Item, TypeOK, CalledIfBusy
  <2>3. \E n \in 0 .. Len(queue) : Evicted = SubSeq(queue, n + 1, Len(queue))
    <3>1. Len(queue) \in Nat /\ Size \in Nat /\ Size > 0 /\ queue \in Seq(Item)
      BY ConstantFacts DEF TypeOK
    <3>2. CASE Len(queue) >= Size
      <4>1. Len(queue) - Size + 1 \in 0 .. Len(queue) /\ (Len(queue) - Size + 1) + 1 = Len(queue) - Size + 2
        BY <3>1, <3>2
      <4>2. Evicted = SubSeq(queue, (Len(queue) - Size + 1) + 1, Len(queue))
        BY <3>2, <4>1, Zenon DEF Evicted
      <4> QED
        BY <4>1, <4>2, Zenon
    <3>3. CASE Len(queue) < Size
      <4>1. Evicted = SubSeq(queue, 1, Len(queue))
        BY <3>1, <3>3 DEF Evicted
      <4> QED
        BY <3>1, <4>1
    <3> QED
      BY <3>1, <3>2, <3>3
  <2>4. PICK n \in 0 .. Len(queue) : Evicted = SubSeq(queue, n + 1, Len(queue))
    BY <2>3
  <2>5. Evicted \in Seq(Item) /\ PartOf(taken \o Evicted, accepted)
    BY <2>1, <2>4, PartDrops DEF Order, TypeOK
  <2> QED
    BY <2>1, <2>2, <2>5, PushKeepsOrder
<1>3. ASSUME NEW c \in Consumer, TakePops(c) PROVE Order'
  <2>1. /\ queue # <<>> /\ taken' = Append(taken, Head(queue)) /\ queue' = Tail(queue)
        /\ UNCHANGED <<kind, accepted>>
    BY <1>3 DEF TakePops
  <2>2. Append(taken, Head(queue)) \o Tail(queue) = taken \o queue
    BY <2>1 DEF TypeOK
  <2> QED
    BY <2>1, <2>2 DEF Order
<1>4. CASE UNCHANGED <<kind, queue, accepted, taken>>
  BY <1>4 DEF Order, PartOf
<1> QED
  BY <1>1, <1>2, <1>3, <1>4 DEF Next, Put, Take, vars, PutWaits, PutGivesUp, TakeWaits,
     TakeGivesUp, TimesOut, WakesUp

\* What the puts accepted comes out once and in order, whatever threads call,
\* wait and time out; a CircularQueue leaves some of it out.
THEOREM TakenInOrder == Spec => []FifoExactlyOnce
<1>1. Init => Order
  <2> SUFFICES ASSUME Init PROVE Order
    OBVIOUS
  <2>1. <<>> \o <<>> = <<>> /\ Len(<<>>) = 0
    OBVIOUS
  <2>2. PartOf(<<>>, <<>>)
    <3>1. [i \in 1 .. 0 |-> 0] \in [1 .. 0 -> 1 .. 0] /\ \A i \in 1 .. 0 : FALSE
      OBVIOUS
    <3> QED
      BY <2>1, <3>1 DEF PartOf
  <2> QED
    BY <2>1, <2>2 DEF Init, Order
<1>2. IInv /\ Order /\ [Next]_vars => Order'
  BY OrderStep DEF IInv, TInv
<1>3. Order => FifoExactlyOnce
  BY DEF Order, PartOf, FifoExactlyOnce
<1> QED
  BY <1>1, <1>2, <1>3, Invariance, PTL DEF Spec

-----------------------------------------------------------------------------
(* Arrays and objects are maps.                                            *)

\* w is the container v but for what it has at k.
Differs(w, v, k) ==
    /\ TypeOf(w) = TypeOf(v)
    /\ DOMAIN Content(w) = DOMAIN Content(v) \cup {k}
    /\ \A j \in DOMAIN Content(v) \ {k} : Content(w)[j] = Content(v)[j]

Container(v) == TypeOf(v) \in {ArrayT, ObjectT}

\* What writing through operator[] leaves in a container.
LEMMA PutFacts ==
    ASSUME NEW v, NEW k, NEW x, Container(v)
    PROVE  /\ Differs(PutAt(v, TypeOf(v), k, x), v, k)
           /\ Content(PutAt(v, TypeOf(v), k, x))[k] = x
<1>1. ~IsNull(v)
  BY DEF IsNull, Container, NullT, ArrayT, ObjectT
<1>2. Become(v, TypeOf(v)) = v
  BY <1>1 DEF Become
<1>3. PutAt(v, TypeOf(v), k, x) = <<TypeOf(v), With(Content(v), k, x), Comments(v)>>
  BY <1>2 DEF PutAt
<1> QED
  BY <1>3 DEF Differs, TypeOf, Content, With

\* operator[] alone creates what is missing, as a null.
LEMMA TouchFacts ==
    ASSUME NEW v, NEW k, Container(v)
    PROVE  /\ Differs(Touch(v, TypeOf(v), k), v, k)
           /\ Content(Touch(v, TypeOf(v), k))[k]
                = IF k \in DOMAIN Content(v) THEN Content(v)[k] ELSE null
<1>1. ~IsNull(v)
  BY DEF IsNull, Container, NullT, ArrayT, ObjectT
<1>2. CASE k \in DOMAIN Content(v)
  <2>1. Touch(v, TypeOf(v), k) = v
    BY <1>1, <1>2 DEF Touch
  <2>2. DOMAIN Content(v) = DOMAIN Content(v) \cup {k}
    BY <1>2
  <2> QED
    BY <1>2, <2>1, <2>2, Zenon DEF Differs
<1>3. CASE k \notin DOMAIN Content(v)
  <2>1. Touch(v, TypeOf(v), k) = PutAt(v, TypeOf(v), k, null)
    BY <1>3 DEF Touch
  <2> QED
    BY <1>3, <2>1, PutFacts
<1> QED
  BY <1>2, <1>3

\* Assigning through operator[].
Assigned(v, k, x) ==
    LET w == Touch(v, TypeOf(v), k)
    IN  PutAt(w, TypeOf(v), k, Assign(Content(w)[k], x))

\* What assigning through operator[] leaves in a container.
LEMMA AssignedFacts ==
    ASSUME NEW v, NEW k, NEW x, Container(v)
    PROVE  Differs(Assigned(v, k, x), v, k) /\ Alike(Content(Assigned(v, k, x))[k], x)
<1> DEFINE u == Touch(v, TypeOf(v), k)
           y == Assign(Content(u)[k], x)
           w == PutAt(u, TypeOf(u), k, y)
<1>1. Differs(u, v, k)
  BY TouchFacts, Zenon
<1>2. Alike(y, x)
  BY DEF Alike, Assign, TypeOf, Content
<1>3. TypeOf(u) = TypeOf(v) /\ Container(u)
  BY <1>1 DEF Differs, Container
<1>4. Assigned(v, k, x) = w
  BY <1>3 DEF Assigned
<1> HIDE DEF u, y
<1>5. Differs(w, u, k) /\ Content(w)[k] = y
  BY <1>3, PutFacts
<1>6. Differs(w, v, k)
  <2> HIDE DEF w
  <2>1. \A j \in DOMAIN Content(v) \ {k} : j \in DOMAIN Content(u) \ {k}
    BY <1>1 DEF Differs
  <2>2. DOMAIN Content(w) = DOMAIN Content(v) \cup {k}
    BY <1>1, <1>5 DEF Differs
  <2> QED
    BY <1>1, <1>5, <2>1, <2>2, Zenon DEF Differs
<1> QED
  BY <1>2, <1>4, <1>5, <1>6, Zenon

-----------------------------------------------------------------------------
(* An array and the list it stands for.                                    *)
Listed == Elements \cup {null}

\* Every index is one of the list; what was never touched is null there.
Holds(a, l) ==
    /\ TypeOf(a) = ArrayT
    /\ l \in Seq(Listed)
    /\ \A i \in DOMAIN Content(a) : i \in Nat /\ i < Len(l) /\ Alike(Content(a)[i], l[i + 1])
    /\ \A i \in 1 .. Len(l) : i - 1 \notin DOMAIN Content(a) => l[i] = null

\* The last index was touched.
LastTouched(a, l) == Len(l) # 0 => Len(l) - 1 \in DOMAIN Content(a)

\* The size is that of the list when its last index was touched, and less
\* when it was not.
LEMMA SizeOfArray ==
    ASSUME NEW a, NEW l, Holds(a, l)
    PROVE  /\ SizeOf(a) \in Nat
           /\ LastTouched(a, l) => SizeOf(a) = Len(l)
           /\ ~LastTouched(a, l) => SizeOf(a) < Len(l)
<1> DEFINE Ends == {i + 1 : i \in DOMAIN Content(a)} \cup {0}
           n == Len(l)
<1>1. n \in Nat /\ TypeOf(a) = ArrayT /\ \A i \in DOMAIN Content(a) : i \in Nat /\ i < n
  BY DEF Holds
<1>2. SizeOf(a) = Max(Ends)
  <2>1. ArrayT # ObjectT
    BY DEF ArrayT, ObjectT
  <2> QED
    BY <1>1, <2>1, Zenon DEF SizeOf
<1>3. /\ 0 \in Ends
      /\ \A e \in Ends : e \in Nat /\ e <= n
      /\ \A e \in Ends : e = n => LastTouched(a, l)
      /\ LastTouched(a, l) => n \in Ends
  <2>1. \A e \in Ends : e = 0 \/ \E i \in DOMAIN Content(a) : e = i + 1
    OBVIOUS
  <2>2. LastTouched(a, l) => n \in Ends
    BY <1>1 DEF LastTouched
  <2> QED
    BY <1>1, <2>1, <2>2 DEF LastTouched
<1> HIDE DEF Ends
<1>4. PICK top \in Ends : \A e \in Ends : top >= e
  <2> DEFINE Short == {k \in Nat : \E e \in Ends : k = n - e}
  <2>1. n \in Short
    BY <1>1, <1>3
  <2>2. PICK k \in Short : \A j \in Short : k <= j
    BY <2>1, LowestOf, Zenon
  <2>3. PICK e \in Ends : k = n - e
    BY <2>2
  <2>4. \A f \in Ends : n - f \in Short
    BY <1>1, <1>3
  <2>5. \A f \in Ends : k <= n - f
    BY <2>2, <2>4
  <2>6. \A f \in Ends : e >= f
    BY <1>1, <1>3, <2>3, <2>5
  <2> QED
    BY <2>6
<1>5. Max(Ends) \in Ends /\ \A e \in Ends : Max(Ends) >= e
  BY <1>4, Zenon DEF Max
<1>6. Max(Ends) \in Nat /\ Max(Ends) <= n
  BY <1>3, <1>5
<1>7. LastTouched(a, l) => Max(Ends) = n
  <2> HAVE LastTouched(a, l)
  <2>1. Max(Ends) >= n
    BY <1>3, <1>5
  <2> QED
    BY <1>1, <1>6, <2>1
<1>8. ~LastTouched(a, l) => Max(Ends) # n
  BY <1>3, <1>5
<1> QED
  BY <1>1, <1>2, <1>6, <1>7, <1>8

\* Assigning an element of an array sets it in the list, which grows as far
\* as that takes.
LEMMA SetElementHolds ==
    ASSUME NEW a, NEW l, NEW m, NEW i \in Nat, NEW v \in Elements,
           Holds(a, l), LastTouched(a, l),
           m \in Seq(Listed), Len(m) = IF i < Len(l) THEN Len(l) ELSE i + 1,
           \A j \in 1 .. Len(m) :
               m[j] = IF j = i + 1 THEN v ELSE IF j <= Len(l) THEN l[j] ELSE null
    PROVE  Holds(SetElement(a, i, v), m) /\ LastTouched(SetElement(a, i, v), m)
<1> DEFINE w == SetElement(a, i, v)
<1>1. /\ TypeOf(a) = ArrayT /\ Len(l) \in Nat
      /\ \A j \in DOMAIN Content(a) : j \in Nat /\ j < Len(l) /\ Alike(Content(a)[j], l[j + 1])
      /\ \A j \in 1 .. Len(l) : j - 1 \notin DOMAIN Content(a) => l[j] = null
  BY DEF Holds
<1>2. w = Assigned(a, i, v)
  BY <1>1 DEF SetElement, Assigned
<1>3. Container(a)
  BY <1>1 DEF Container
<1>4. Differs(w, a, i) /\ Alike(Content(w)[i], v)
  BY <1>2, <1>3, AssignedFacts
<1> HIDE DEF w
<1>5. /\ TypeOf(w) = ArrayT /\ DOMAIN Content(w) = DOMAIN Content(a) \cup {i}
      /\ \A j \in DOMAIN Content(a) \ {i} : Content(w)[j] = Content(a)[j]
  BY <1>1, <1>4 DEF Differs
<1>6. Len(m) \in Nat /\ i < Len(m) /\ Len(l) <= Len(m)
  BY <1>1
<1>7. ASSUME NEW j \in DOMAIN Content(w)
      PROVE  j \in Nat /\ j < Len(m) /\ Alike(Content(w)[j], m[j + 1])
  <2>1. CASE j = i
    <3>1. i + 1 \in 1 .. Len(m)
      BY <1>6
    <3>2. m[i + 1] = v
      BY <3>1
    <3> QED
      BY <1>4, <1>6, <2>1, <3>2
  <2>2. CASE j # i
    <3>1. j \in DOMAIN Content(a) \ {i}
      BY <1>5, <2>2
    <3>2. j \in Nat /\ j < Len(l) /\ Alike(Content(a)[j], l[j + 1])
      BY <1>1, <3>1
    <3>3. j + 1 \in 1 .. Len(m) /\ j + 1 # i + 1 /\ j + 1 <= Len(l) /\ j < Len(m)
      BY <1>1, <1>6, <2>2, <3>2
    <3>4. m[j + 1] = l[j + 1]
      BY <3>3
    <3>5. Content(w)[j] = Content(a)[j]
      BY <1>5, <3>1
    <3> QED
      BY <3>2, <3>3, <3>4, <3>5
  <2> QED
    BY <2>1, <2>2
<1>8. ASSUME NEW j \in 1 .. Len(m), j - 1 \notin DOMAIN Content(w)
      PROVE  m[j] = null
  <2>1. j # i + 1 /\ j - 1 \notin DOMAIN Content(a)
    BY <1>5, <1>6, <1>8
  <2>2. CASE j <= Len(l)
    <3>1. j \in 1 .. Len(l)
      BY <1>1, <1>6, <2>2
    <3>2. l[j] = null
      BY <1>1, <2>1, <3>1
    <3> QED
      BY <2>1, <2>2, <3>2
  <2>3. CASE ~(j <= Len(l))
    BY <2>1, <2>3
  <2> QED
    BY <2>2, <2>3
<1>9. Holds(w, m)
  BY <1>5, <1>7, <1>8 DEF Holds
<1>10. LastTouched(w, m)
  <2>1. CASE i < Len(l)
    <3>1. Len(m) = Len(l) /\ Len(l) # 0
      BY <1>1, <2>1
    <3> QED
      BY <1>5, <3>1 DEF LastTouched
  <2>2. CASE ~(i < Len(l))
    <3>1. Len(m) - 1 = i
      BY <2>2
    <3> QED
      BY <1>5, <3>1 DEF LastTouched
  <2> QED
    BY <2>1, <2>2
<1> QED
  BY <1>9, <1>10 DEF w

\* Clearing an array empties the list.
LEMMA ClearHolds ==
    ASSUME NEW a, TypeOf(a) = ArrayT
    PROVE  Holds(Clear(a), <<>>) /\ LastTouched(Clear(a), <<>>)
<1>1. ~IsNull(a)
  BY DEF IsNull, NullT, ArrayT
<1>2. Clear(a) = <<ArrayT, <<>>, Comments(a)>>
  BY <1>1 DEF Clear
<1>3. TypeOf(Clear(a)) = ArrayT /\ Content(Clear(a)) = <<>>
  BY <1>2 DEF TypeOf, Content
<1>4. DOMAIN Content(Clear(a)) = {}
  BY <1>3
<1>5. <<>> \in Seq(Listed) /\ Len(<<>>) = 0
  OBVIOUS
<1> QED
  BY <1>3, <1>4, <1>5 DEF Holds, LastTouched

\* Resizing cuts the list or fills it up; the assertion fails exactly when
\* the last index that is left was never touched.
LEMMA ResizeHolds ==
    ASSUME NEW a, NEW l, NEW n \in Nat, Holds(a, l), LastTouched(a, l),
           NEW m, m = [i \in 1 .. n |-> IF i <= Len(l) THEN l[i] ELSE null]
    PROVE  /\ Holds(Resize(a, n), m)
           /\ ResizeAsserts(a, n) <=> LastTouched(Resize(a, n), m)
<1> DEFINE w == Resize(a, n)
<1>1. /\ TypeOf(a) = ArrayT /\ l \in Seq(Listed) /\ Len(l) \in Nat
      /\ \A j \in DOMAIN Content(a) : j \in Nat /\ j < Len(l) /\ Alike(Content(a)[j], l[j + 1])
      /\ \A j \in 1 .. Len(l) : j - 1 \notin DOMAIN Content(a) => l[j] = null
  BY DEF Holds
<1>2. ~IsNull(a) /\ Become(a, ArrayT) = a /\ Container(a) /\ ArrayT # ObjectT
  BY <1>1 DEF IsNull, Become, Container, NullT, ArrayT, ObjectT
<1>3. SizeOf(a) = Len(l)
  BY SizeOfArray
<1>4. m \in Seq(Listed) /\ Len(m) = n /\ \A i \in 1 .. n : m[i] = IF i <= Len(l) THEN l[i] ELSE null
  <2>1. \A i \in 1 .. n : (IF i <= Len(l) THEN l[i] ELSE null) \in Listed
    BY <1>1 DEF Listed
  <2> QED
    BY <2>1
<1>5. Holds(w, m)
  <2>1. CASE n = 0
    <3>0. ~(n > SizeOf(a))
      BY <1>1, <1>3, <2>1
    <3>1. w = Clear(a)
      BY <1>2, <2>1, <3>0, Zenon DEF Resize
    <3>2. m = <<>>
      BY <1>4, <2>1
    <3> QED
      BY <1>1, <3>1, <3>2, ClearHolds
  <2>2. CASE n # 0 /\ n > Len(l)
    <3>1. w = Touch(a, TypeOf(a), n - 1)
      BY <1>1, <1>2, <1>3, <2>2, Zenon DEF Resize
    <3>2. /\ Differs(w, a, n - 1)
          /\ Content(w)[n - 1] = IF n - 1 \in DOMAIN Content(a) THEN Content(a)[n - 1] ELSE null
      BY <1>2, <3>1, TouchFacts
    <3>3. n - 1 \in Nat /\ ~(n - 1 < Len(l)) /\ n - 1 < n /\ n - 1 + 1 = n /\ n \in 1 .. n
      BY <1>1, <2>2
    <3>4. n - 1 \notin DOMAIN Content(a)
      BY <1>1, <3>3
    <3> HIDE DEF w
    <3>5. /\ TypeOf(w) = ArrayT /\ DOMAIN Content(w) = DOMAIN Content(a) \cup {n - 1}
          /\ Content(w)[n - 1] = null
          /\ \A j \in DOMAIN Content(a) \ {n - 1} : Content(w)[j] = Content(a)[j]
      BY <1>1, <3>2, <3>4 DEF Differs
    <3>6. ASSUME NEW j \in DOMAIN Content(w)
          PROVE  j \in Nat /\ j < Len(m) /\ Alike(Content(w)[j], m[j + 1])
      <4>1. CASE j = n - 1
        <5>1. m[n] = null
          BY <1>1, <1>4, <2>2, <3>3
        <5> QED
          BY <1>4, <3>3, <3>5, <4>1, <5>1 DEF Alike
      <4>2. CASE j # n - 1
        <5>1. j \in DOMAIN Content(a) \ {n - 1}
          BY <3>5, <4>2
        <5>2. j \in Nat /\ j < Len(l) /\ Alike(Content(a)[j], l[j + 1])
          BY <1>1, <5>1
        <5>3. j + 1 \in 1 .. n /\ j + 1 <= Len(l) /\ j < n
          BY <1>1, <2>2, <5>2
        <5>4. m[j + 1] = l[j + 1] /\ Content(w)[j] = Content(a)[j]
          BY <1>4, <3>5, <5>1, <5>3
        <5> QED
          BY <1>4, <5>2, <5>3, <5>4
      <4> QED
        BY <4>1, <4>2
    <3>7. ASSUME NEW j \in 1 .. Len(m), j - 1 \notin DOMAIN Content(w)
          PROVE  m[j] = null
      <4>1. j \in 1 .. n /\ j - 1 \notin DOMAIN Content(a)
        BY <1>4, <3>5, <3>7
      <4>2. j <= Len(l) => j \in 1 .. Len(l)
        BY <1>1, <4>1
      <4>3. j <= Len(l) => l[j] = null
        BY <1>1, <4>1, <4>2
      <4> QED
        BY <1>4, <4>1, <4>3
    <3> QED
      BY <1>4, <3>5, <3>6, <3>7 DEF Holds
  <2>3. CASE n # 0 /\ ~(n > Len(l))
    <3> DEFINE kept == DOMAIN Content(a) \ n .. (SizeOf(a) - 1)
    <3>1. w = <<ArrayT, [j \in kept |-> Content(a)[j]], Comments(a)>>
      BY <1>2, <1>3, <2>3, Zenon DEF Resize
    <3>2. /\ TypeOf(w) = ArrayT /\ DOMAIN Content(w) = kept
          /\ \A j \in kept : Content(w)[j] = Content(a)[j]
      BY <3>1 DEF TypeOf, Content
    <3>3. \A j \in DOMAIN Content(a) : j \in kept <=> j < n
      BY <1>1, <1>3
    <3> HIDE DEF w, kept
    <3>4. \A j \in kept : j \in DOMAIN Content(a)
      BY DEF kept
    <3>5. ASSUME NEW j \in DOMAIN Content(w)
          PROVE  j \in Nat /\ j < Len(m) /\ Alike(Content(w)[j], m[j + 1])
      <4>1. j \in Nat /\ j < n /\ j < Len(l) /\ Alike(Content(a)[j], l[j + 1])
        BY <1>1, <3>2, <3>3, <3>4
      <4>2. j + 1 \in 1 .. n /\ j + 1 <= Len(l)
        BY <1>1, <4>1
      <4>3. m[j + 1] = l[j + 1] /\ Content(w)[j] = Content(a)[j]
        BY <1>4, <3>2, <4>2
      <4> QED
        BY <1>4, <4>1, <4>3
    <3>6. ASSUME NEW j \in 1 .. Len(m), j - 1 \notin DOMAIN Content(w)
          PROVE  m[j] = null
      <4>1. j \in 1 .. n /\ j - 1 < n /\ j \in 1 .. Len(l) /\ j <= Len(l)
        BY <1>1, <1>4, <2>3
      <4>2. j - 1 \notin DOMAIN Content(a)
        BY <3>2, <3>3, <3>6, <4>1
      <4>3. l[j] = null
        BY <1>1, <4>1, <4>2
      <4> QED
        BY <1>4, <4>1, <4>3
    <3> QED
      BY <1>4, <3>2, <3>5, <3>6 DEF Holds
  <2> QED
    BY <2>1, <2>2, <2>3
<1>6. /\ LastTouched(w, m) => SizeOf(w) = n
      /\ ~LastTouched(w, m) => SizeOf(w) < n
      /\ SizeOf(w) \in Nat
  BY <1>4, <1>5, SizeOfArray
<1>7. n = 0 => LastTouched(w, m)
  BY <1>4 DEF LastTouched
<1> QED
  BY <1>5, <1>6, <1>7 DEF ResizeAsserts

-----------------------------------------------------------------------------
(* The values in the document.                                             *)

\* A container of what the constructors leave.
Whole(v) == Container(v) /\ Constructed(v)
              /\ \A k \in DOMAIN Content(v) : Constructed(Content(v)[k])

\* A copy, and a value with a comment, is as its original.
LEMMA SameConstructed ==
    ASSUME NEW v, NEW w, Constructed(v), Alike(w, v), w = <<TypeOf(w), Content(w), Comments(w)>>
    PROVE  Constructed(w) /\ (Whole(v) => Whole(w))
BY DEF Constructed, Alike, Whole, Container

\* A copy and a comment keep a value well formed.
LEMMA CopyConstructed ==
    ASSUME NEW v, NEW old, NEW placement, NEW text, Constructed(v)
    PROVE  /\ Constructed(Assign(old, v))
           /\ Constructed(SetComment(v, placement, text))
           /\ Alike(SetComment(v, placement, text), v)
           /\ Whole(v) => Whole(SetComment(v, placement, text))
<1>1. ASSUME NEW w, w = <<TypeOf(v), Content(v), Comments(w)>>
      PROVE  Constructed(w) /\ Alike(w, v) /\ (Whole(v) => Whole(w))
  <2>1. Alike(w, v) /\ w = <<TypeOf(w), Content(w), Comments(w)>>
    BY <1>1 DEF Alike, TypeOf, Content
  <2> QED
    BY <2>1, SameConstructed
<1>2. Assign(old, v) = <<TypeOf(v), Content(v), Comments(Assign(old, v))>>
  BY DEF Assign, Comments
<1>3. SetComment(v, placement, text)
        = <<TypeOf(v), Content(v), Comments(SetComment(v, placement, text))>>
  BY DEF SetComment, Comments
<1> QED
  BY <1>1, <1>2, <1>3

\* A container stays whole when a value the constructors left is put into it.
LEMMA PutWhole ==
    ASSUME NEW v, NEW k, NEW x, Whole(v), Constructed(x)
    PROVE  Whole(PutAt(v, TypeOf(v), k, x))
<1> DEFINE w == PutAt(v, TypeOf(v), k, x)
<1>1. Differs(w, v, k) /\ Content(w)[k] = x
  BY PutFacts DEF Whole
<1>2. w = <<TypeOf(w), Content(w), Comments(w)>>
  BY DEF PutAt, TypeOf, Content, Comments
<1> HIDE DEF w
<1>3. TypeOf(w) = TypeOf(v) /\ DOMAIN Content(w) = DOMAIN Content(v) \cup {k}
  BY <1>1 DEF Differs
<1>4. IsFiniteSet(DOMAIN Content(v))
  BY DEF Whole, Constructed, Container, NullT, IntT, UIntT, RealT, StringT, BoolT, ArrayT, ObjectT
<1>5. IsFiniteSet(DOMAIN Content(w))
  BY <1>3, <1>4, FS_AddElement
<1>6. \A j \in DOMAIN Content(w) : Constructed(Content(w)[j])
  BY <1>1 DEF Differs, Whole
<1>7. Container(w) /\ Constructed(w)
  BY <1>2, <1>3, <1>5 DEF Whole, Container, Constructed
<1> QED
  BY <1>6, <1>7 DEF Whole, w

\* Value::null is well formed.
LEMMA NullConstructed == Constructed(null)
<1>1. null = <<NullT, 0, NoComments>>
  BY DEF null, Empty, NullT, IntT, UIntT, RealT, StringT, BoolT, ArrayT, ObjectT
<1> QED
  BY <1>1 DEF Constructed, TypeOf, Content, Comments

\* A container stays whole when operator[] touches it or assigns through it.
LEMMA AssignedWhole ==
    ASSUME NEW v, NEW k, NEW x, Whole(v), Constructed(x)
    PROVE  Whole(Touch(v, TypeOf(v), k)) /\ Whole(Assigned(v, k, x))
<1> DEFINE u == Touch(v, TypeOf(v), k)
<1>1. TypeOf(u) = TypeOf(v)
  BY TouchFacts DEF Whole, Differs
<1>2. Whole(u)
  <2>1. u = v \/ u = PutAt(v, TypeOf(v), k, null)
    BY DEF Touch
  <2> QED
    BY <2>1, PutWhole, NullConstructed
<1>3. Constructed(Assign(Content(u)[k], x))
  BY CopyConstructed
<1>4. Assigned(v, k, x) = PutAt(u, TypeOf(u), k, Assign(Content(u)[k], x))
  BY <1>1 DEF Assigned
<1> HIDE DEF u
<1>5. Whole(PutAt(u, TypeOf(u), k, Assign(Content(u)[k], x)))
  BY <1>2, <1>3, PutWhole
<1> QED
  BY <1>2, <1>4, <1>5 DEF u

\* So does one that loses entries.
LEMMA LessWhole ==
    ASSUME NEW v, NEW w, NEW kept \in SUBSET DOMAIN Content(v), Whole(v),
           w = <<TypeOf(v), [k \in kept |-> Content(v)[k]], Comments(v)>>
    PROVE  Whole(w)
<1>1. /\ TypeOf(w) = TypeOf(v) /\ Content(w) = [k \in kept |-> Content(v)[k]]
      /\ w = <<TypeOf(w), Content(w), Comments(w)>>
  BY DEF TypeOf, Content, Comments
<1>2. IsFiniteSet(DOMAIN Content(v))
  BY DEF Whole, Constructed, Container, NullT, IntT, UIntT, RealT, StringT, BoolT, ArrayT, ObjectT
<1>3. DOMAIN Content(w) = kept
  BY <1>1
<1>4. IsFiniteSet(DOMAIN Content(w))
  BY <1>2, <1>3, FS_Subset
<1>5. \A k \in DOMAIN Content(w) : Constructed(Content(w)[k])
  BY <1>1 DEF Whole
<1> QED
  BY <1>1, <1>4, <1>5 DEF Whole, Container, Constructed

\* clear and resize keep an array whole.
LEMMA ResizeWhole ==
    ASSUME NEW a, NEW n, Whole(a), TypeOf(a) = ArrayT
    PROVE  Whole(Clear(a)) /\ Whole(Resize(a, n))
<1>1. ~IsNull(a) /\ Become(a, ArrayT) = a
  BY DEF IsNull, Become, NullT, ArrayT
<1>2. Whole(Clear(a))
  <2>1. Clear(a) = <<ArrayT, <<>>, Comments(a)>>
    BY <1>1 DEF Clear
  <2>2. <<>> = [k \in {} |-> Content(a)[k]]
    OBVIOUS
  <2>3. {} \in SUBSET DOMAIN Content(a)
    OBVIOUS
  <2> QED
    BY <2>1, <2>2, <2>3, LessWhole
<1>3. Whole(Touch(a, ArrayT, n - 1))
  BY AssignedWhole, NullConstructed
<1>4. ASSUME NEW kept \in SUBSET DOMAIN Content(a)
      PROVE  Whole(<<ArrayT, [i \in kept |-> Content(a)[i]], Comments(a)>>)
  BY LessWhole
<1> DEFINE kept == DOMAIN Content(a) \ n .. (SizeOf(a) - 1)
<1>5. kept \in SUBSET DOMAIN Content(a)
  OBVIOUS
<1>6. Whole(<<ArrayT, [i \in kept |-> Content(a)[i]], Comments(a)>>)
  BY <1>4, <1>5, Zenon
<1>7. Resize(a, n) \in {Clear(a), Touch(a, ArrayT, n - 1),
                        <<ArrayT, [i \in kept |-> Content(a)[i]], Comments(a)>>}
  <2>1. CASE n = 0 /\ ~(n > SizeOf(a))
    BY <1>1, <2>1, Zenon DEF Resize
  <2>2. CASE n # 0 /\ n > SizeOf(a)
    BY <1>1, <2>2, Zenon DEF Resize
  <2>3. CASE n # 0 /\ ~(n > SizeOf(a))
    BY <1>1, <2>3, Zenon DEF Resize
  <2>4. CASE n = 0 /\ n > SizeOf(a)
    BY <1>1, <2>4, Zenon DEF Resize
  <2> QED
    BY <2>1, <2>2, <2>3, <2>4
<1> QED
  BY <1>2, <1>3, <1>6, <1>7

-----------------------------------------------------------------------------
(* The document under construction.                                        *)

\* The document is an object that has the array under test.
DocOk(d) == /\ Whole(d) /\ TypeOf(d) = ObjectT /\ Array \in DOMAIN Content(d)
            /\ Whole(TheArray(d)) /\ TypeOf(TheArray(d)) = ArrayT

\* The array is the list; it is a whole one unless an assertion failed.
BuildInv == /\ DocOk(doc)
            /\ Holds(TheArray(doc), list)
            /\ aborted \in BOOLEAN /\ (aborted <=> ~LastTouched(TheArray(doc), list))

\* Another array in its place.
LEMMA WithArrayOk ==
    ASSUME NEW d, NEW new, DocOk(d), Whole(new), TypeOf(new) = ArrayT
    PROVE  /\ DocOk(PutAt(d, ObjectT, Array, new))
           /\ TheArray(PutAt(d, ObjectT, Array, new)) = new
<1> DEFINE e == PutAt(d, ObjectT, Array, new)
<1>1. Whole(e)
  <2>1. Constructed(new)
    BY DEF Whole
  <2> QED
    BY <2>1, PutWhole DEF DocOk
<1>2. Differs(e, d, Array) /\ Content(e)[Array] = new
  BY PutFacts DEF DocOk, Whole
<1> QED
  BY <1>1, <1>2 DEF DocOk, Differs, TheArray

\* Another member does not touch it.
LEMMA OtherMemberOk ==
    ASSUME NEW d, NEW e, NEW name, DocOk(d), Whole(e), name # Array, Differs(e, d, name)
    PROVE  DocOk(e) /\ TheArray(e) = TheArray(d)
BY DEF DocOk, Differs, TheArray

\* Only comments of the array change.
LEMMA AlikeHolds ==
    ASSUME NEW a, NEW b, NEW l, Holds(a, l), TypeOf(b) = ArrayT,
           DOMAIN Content(b) = DOMAIN Content(a),
           \A i \in DOMAIN Content(a) : Alike(Content(b)[i], Content(a)[i])
    PROVE  Holds(b, l) /\ (LastTouched(b, l) <=> LastTouched(a, l))
BY DEF Holds, LastTouched, Alike

\* The document a program starts from.
LEMMA NewDocumentOk ==
    DocOk(NewDocument) /\ Holds(TheArray(NewDocument), <<>>)
        /\ LastTouched(TheArray(NewDocument), <<>>)
<1> DEFINE none == <<ArrayT, <<>>, NoComments>>
           object == <<ObjectT, <<>>, NoComments>>
           started == Touch(null, ObjectT, Array)
<1>1. /\ Empty(ArrayT) = none /\ Empty(ObjectT) = object
      /\ null = <<NullT, 0, NoComments>>
  BY DEF null, Empty, NullT, IntT, UIntT, RealT, StringT, BoolT, ArrayT, ObjectT
<1>2. /\ Constructed(none) /\ Whole(none) /\ Whole(object) /\ DOMAIN Content(none) = {}
      /\ TypeOf(none) = ArrayT /\ TypeOf(object) = ObjectT
  <2>1. IsFiniteSet({}) /\ DOMAIN <<>> = {}
    BY FS_EmptySet
  <2> QED
    BY <2>1 DEF Constructed, Whole, Container, TypeOf, Content, Comments
<1>3. IsNull(null) /\ Become(null, ObjectT) = object
  BY <1>1 DEF IsNull, Become, Assign, TypeOf, Content, Comments
<1>4. started = PutAt(null, ObjectT, Array, null)
  BY <1>3 DEF Touch
<1>5. started = PutAt(object, TypeOf(object), Array, null)
  <2>1. ~IsNull(object) /\ Become(object, ObjectT) = object
    BY DEF IsNull, Become, TypeOf, NullT, ObjectT
  <2>2. Comments(null) = Comments(object)
    BY <1>1 DEF Comments
  <2> QED
    BY <1>2, <1>3, <1>4, <2>1, <2>2 DEF PutAt
<1>6. Whole(started)
  BY <1>2, <1>5, PutWhole, NullConstructed
<1>7. Differs(started, object, Array)
  BY <1>2, <1>5, PutFacts DEF Whole
<1>8. TypeOf(started) = ObjectT
  BY <1>2, <1>7 DEF Differs
<1> DEFINE new == Assign(Content(started)[Array], none)
<1>9. Constructed(new) /\ Alike(new, none)
  <2>1. Constructed(new)
    BY <1>2, CopyConstructed
  <2>2. Alike(new, none)
    BY DEF Alike, Assign, TypeOf, Content
  <2> QED
    BY <2>1, <2>2
<1>10. NewDocument = PutAt(started, TypeOf(started), Array, new)
  BY <1>1, <1>8 DEF NewDocument, SetMember
<1>11. Whole(NewDocument)
  BY <1>6, <1>9, <1>10, PutWhole
<1>12. Differs(NewDocument, started, Array) /\ Content(NewDocument)[Array] = new
  BY <1>6, <1>10, PutFacts DEF Whole
<1>13. TheArray(NewDocument) = new
  BY <1>12 DEF TheArray
<1>14. TypeOf(new) = ArrayT /\ DOMAIN Content(new) = {}
  BY <1>2, <1>9 DEF Alike
<1>15. Whole(new)
  BY <1>9, <1>14 DEF Whole, Container
<1>16. DocOk(NewDocument)
  BY <1>8, <1>11, <1>12, <1>13, <1>14, <1>15 DEF DocOk, Differs
<1>17. <<>> \in Seq(Listed) /\ Len(<<>>) = 0
  OBVIOUS
<1> HIDE DEF new
<1>18. Holds(new, <<>>) /\ LastTouched(new, <<>>)
  BY <1>14, <1>17 DEF Holds, LastTouched
<1> QED
  BY <1>13, <1>16, <1>18

\* The invariant holds of it.
LEMMA BuildInvInit == BuildInit => BuildInv
BY NewDocumentOk DEF BuildInit, BuildInv

\* A call that makes another array of this one, and another list.
LEMMA ArrayStep ==
    ASSUME BuildInv, NEW new, Whole(new), doc' = WithArray(new), Holds(new, list'),
           aborted' \in BOOLEAN, aborted' <=> ~LastTouched(new, list')
    PROVE  BuildInv'
<1>1. TypeOf(new) = ArrayT
  BY DEF Holds
<1>2. DocOk(doc') /\ TheArray(doc') = new
  BY <1>1, WithArrayOk DEF BuildInv, WithArray
<1> QED
  BY <1>2 DEF BuildInv

\* What is assigned was constructed.
LEMMA SetElementWhole ==
    ASSUME NEW a, NEW i, NEW v \in Elements, Whole(a), TypeOf(a) = ArrayT
    PROVE  Whole(SetElement(a, i, v))
<1>1. Constructed(v)
  BY BuildAssumption
<1>2. SetElement(a, i, v) = Assigned(a, i, v)
  BY DEF SetElement, Assigned
<1> QED
  BY <1>1, <1>2, AssignedWhole

\* append.
LEMMA AppendStep ==
    ASSUME BuildInv, NEW v \in Elements, Append_(v) PROVE BuildInv'
<1> DEFINE a == TheArray(doc)
           w == SetElement(a, Len(list), v)
<1>1. /\ Holds(a, list) /\ LastTouched(a, list) /\ Whole(a)
      /\ TypeOf(a) = ArrayT /\ list \in Seq(Listed) /\ Len(list) \in Nat
  BY DEF BuildInv, Append_, Holds, DocOk
<1>2. SizeOf(a) = Len(list)
  BY <1>1, SizeOfArray
<1>3. doc' = WithArray(w) /\ list' = Append(list, v) /\ aborted' = FALSE
  BY <1>2 DEF Append_, AppendValue, BuildInv
<1>4. /\ list' \in Seq(Listed) /\ Len(list') = Len(list) + 1
      /\ \A j \in 1 .. Len(list') :
             list'[j] = IF j = Len(list) + 1 THEN v ELSE IF j <= Len(list) THEN list[j] ELSE null
  <2>1. v \in Listed
    BY DEF Listed
  <2> QED
    BY <1>1, <1>3, <2>1
<1>5. Holds(w, list') /\ LastTouched(w, list')
  <2>1. Len(list') = IF Len(list) < Len(list) THEN Len(list) ELSE Len(list) + 1
    BY <1>1, <1>4
  <2> HIDE DEF a, w
  <2> QED
    BY <1>1, <1>4, <2>1, SetElementHolds DEF w
<1>6. Whole(w)
  BY <1>1, SetElementWhole
<1> QED
  BY <1>3, <1>5, <1>6, ArrayStep

\* An assignment to an element, inside the array or beyond its end.
LEMMA AssignElementStep ==
    ASSUME BuildInv, NEW i \in 0 .. MaxLength - 1, NEW v \in Elements, AssignElement(i, v)
    PROVE  BuildInv'
<1> DEFINE a == TheArray(doc)
           w == SetElement(a, i, v)
           room == IF i < Len(list) THEN list ELSE Padded(i + 1)
<1>1. /\ Holds(a, list) /\ LastTouched(a, list) /\ Whole(a) /\ i \in Nat
      /\ TypeOf(a) = ArrayT /\ list \in Seq(Listed) /\ Len(list) \in Nat
  BY BuildAssumption DEF BuildInv, AssignElement, Holds, DocOk
<1>2. doc' = WithArray(w) /\ list' = [room EXCEPT ![i + 1] = v] /\ aborted' = FALSE
  BY DEF AssignElement, BuildInv
<1>3. /\ room \in Seq(Listed) /\ Len(room) = IF i < Len(list) THEN Len(list) ELSE i + 1
      /\ \A j \in 1 .. Len(room) : room[j] = IF j <= Len(list) THEN list[j] ELSE null
  <2>1. CASE i < Len(list)
    BY <1>1, <2>1
  <2>2. CASE ~(i < Len(list))
    <3>1. \A j \in 1 .. i + 1 : (IF j <= Len(list) THEN list[j] ELSE null) \in Listed
      BY <1>1 DEF Listed
    <3>2. room = [j \in 1 .. i + 1 |-> IF j <= Len(list) THEN list[j] ELSE null]
      BY <2>2 DEF Padded
    <3> QED
      BY <1>1, <2>2, <3>1, <3>2
  <2> QED
    BY <2>1, <2>2
<1> HIDE DEF room
<1>4. i + 1 \in 1 .. Len(room)
  BY <1>1, <1>3
<1>5. /\ list' \in Seq(Listed) /\ Len(list') = Len(room)
      /\ \A j \in 1 .. Len(list') : list'[j] = IF j = i + 1 THEN v ELSE room[j]
  <2>1. v \in Listed
    BY DEF Listed
  <2> QED
    BY <1>2, <1>3, <1>4, <2>1
<1>6. \A j \in 1 .. Len(list') :
          list'[j] = IF j = i + 1 THEN v ELSE IF j <= Len(list) THEN list[j] ELSE null
  BY <1>3, <1>5
<1>7. Holds(w, list') /\ LastTouched(w, list')
  <2>1. Len(list') = IF i < Len(list) THEN Len(list) ELSE i + 1
    BY <1>3, <1>5
  <2> HIDE DEF a, w
  <2> QED
    BY <1>1, <1>5, <1>6, <2>1, SetElementHolds DEF w
<1>8. Whole(w)
  BY <1>1, SetElementWhole
<1> QED
  BY <1>2, <1>7, <1>8, ArrayStep

\* resize, which leaves the last index untouched when its assertion fails.
LEMMA ResizeArrayStep ==
    ASSUME BuildInv, NEW n \in 0 .. MaxLength, ResizeArray(n) PROVE BuildInv'
<1> DEFINE a == TheArray(doc)
           w == Resize(a, n)
<1>1. /\ Holds(a, list) /\ LastTouched(a, list) /\ Whole(a) /\ TypeOf(a) = ArrayT /\ n \in Nat
  BY BuildAssumption DEF BuildInv, ResizeArray, DocOk
<1>2. doc' = WithArray(w) /\ list' = Padded(n) /\ aborted' = ~ResizeAsserts(a, n)
  BY DEF ResizeArray
<1>3. list' = [i \in 1 .. n |-> IF i <= Len(list) THEN list[i] ELSE null]
  BY <1>2 DEF Padded
<1> HIDE DEF a
<1>4. Holds(w, list') /\ (ResizeAsserts(a, n) <=> LastTouched(w, list'))
  BY <1>1, <1>3, ResizeHolds
<1>5. Whole(w)
  BY <1>1, ResizeWhole
<1>6. aborted' \in BOOLEAN
  BY <1>2, Zenon DEF ResizeAsserts
<1> QED
  BY <1>2, <1>4, <1>5, <1>6, ArrayStep

\* clear.
LEMMA ClearArrayStep == BuildInv /\ ClearArray => BuildInv'
<1> SUFFICES ASSUME BuildInv, ClearArray PROVE BuildInv'
  OBVIOUS
<1>1. Whole(TheArray(doc)) /\ TypeOf(TheArray(doc)) = ArrayT
  BY DEF BuildInv, DocOk
<1>2. doc' = WithArray(Clear(TheArray(doc))) /\ list' = <<>> /\ aborted' = FALSE
  BY DEF ClearArray, BuildInv
<1>3. /\ Holds(Clear(TheArray(doc)), list') /\ LastTouched(Clear(TheArray(doc)), list')
      /\ Whole(Clear(TheArray(doc)))
  BY <1>1, <1>2, ClearHolds, ResizeWhole
<1> QED
  BY <1>2, <1>3, ArrayStep

\* The array and the list stay.
LEMMA MemberStep ==
    ASSUME BuildInv, NEW name, name # Array, Whole(doc'), Differs(doc', doc, name),
           UNCHANGED <<list, aborted>>
    PROVE  BuildInv'
<1>1. DocOk(doc') /\ TheArray(doc') = TheArray(doc)
  BY OtherMemberOk DEF BuildInv
<1> QED
  BY <1>1 DEF BuildInv

\* An assignment to another member of the document.
LEMMA AssignMemberStep ==
    ASSUME BuildInv, NEW name \in Names, NEW v \in Elements, AssignMember(name, v)
    PROVE  BuildInv'
<1>1. TypeOf(doc) = ObjectT /\ Whole(doc) /\ Container(doc) /\ name # Array /\ Constructed(v)
  BY BuildAssumption DEF BuildInv, DocOk, Whole
<1>2. doc' = Assigned(doc, name, v)
  BY <1>1 DEF AssignMember, SetMember, Assigned
<1>3. Whole(doc') /\ Differs(doc', doc, name)
  BY <1>1, <1>2, AssignedFacts, AssignedWhole
<1> QED
  BY <1>1, <1>3, MemberStep DEF AssignMember

\* removeMember of another member.
LEMMA DeleteMemberStep ==
    ASSUME BuildInv, NEW name \in Names, DeleteMember(name) PROVE BuildInv'
<1>1. TypeOf(doc) = ObjectT /\ Whole(doc) /\ name # Array /\ IsMember(doc, name)
  BY BuildAssumption DEF BuildInv, DocOk, DeleteMember
<1> DEFINE kept == DOMAIN Content(doc) \ {name}
<1>2. doc' = <<TypeOf(doc), [k \in kept |-> Content(doc)[k]], Comments(doc)>>
  BY <1>1 DEF DeleteMember, RemoveMember
<1>3. Whole(doc')
  BY <1>1, <1>2, LessWhole
<1>4. /\ TypeOf(doc') = ObjectT /\ DOMAIN Content(doc') = kept
      /\ \A k \in kept : Content(doc')[k] = Content(doc)[k]
  BY <1>1, <1>2 DEF TypeOf, Content
<1>5. DocOk(doc') /\ TheArray(doc') = TheArray(doc)
  BY <1>1, <1>3, <1>4 DEF BuildInv, DocOk, TheArray
<1> QED
  BY <1>5 DEF BuildInv, DeleteMember

\* setComment of any value a program can refer to.
LEMMA CommentStep ==
    ASSUME BuildInv, NEW spot \in Spots, NEW placement, NEW text, Comment(spot, placement, text)
    PROVE  BuildInv'
<1> DEFINE a == TheArray(doc)
           new == SetComment(Referred(spot), placement, text)
<1>1. /\ DocOk(doc) /\ Whole(doc) /\ TypeOf(doc) = ObjectT /\ Whole(a) /\ TypeOf(a) = ArrayT
      /\ Holds(a, list) /\ aborted = FALSE /\ LastTouched(a, list) /\ UNCHANGED <<list, aborted>>
      /\ doc' = Through(spot, new)
  BY DEF BuildInv, DocOk, Comment
<1>2. CASE spot = <<>>
  <2>1. Referred(spot) = doc /\ doc' = SetComment(doc, placement, text)
    BY <1>1, <1>2 DEF Referred, Through
  <2>2. Whole(doc') /\ Alike(doc', doc)
    BY <1>1, <2>1, CopyConstructed DEF Whole
  <2>3. DocOk(doc') /\ TheArray(doc') = a
    BY <1>1, <2>2 DEF DocOk, Alike, TheArray
  <2> QED
    BY <1>1, <2>3 DEF BuildInv
<1>3. ASSUME NEW n \in DOMAIN Content(doc), spot = <<n>> PROVE BuildInv'
  <2>1. spot # <<>> /\ Len(spot) = 1 /\ spot[1] = n
    BY <1>3
  <2>2. Referred(spot) = Content(doc)[n] /\ doc' = PutAt(doc, ObjectT, n, new)
    BY <1>1, <2>1 DEF Referred, Through
  <2>3. Constructed(Content(doc)[n])
    BY <1>1 DEF Whole
  <2>4. Constructed(new) /\ Alike(new, Content(doc)[n])
    BY <2>2, <2>3, CopyConstructed
  <2>5. CASE n = Array
    <3>1. Alike(new, a) /\ Referred(spot) = a
      BY <2>2, <2>4, <2>5 DEF TheArray
    <3>2. Whole(new)
      BY <1>1, <2>3, <3>1, CopyConstructed DEF Whole
    <3>3. TypeOf(new) = ArrayT /\ Content(new) = Content(a)
      BY <1>1, <3>1 DEF Alike
    <3>4. Holds(new, list) /\ (LastTouched(new, list) <=> LastTouched(a, list))
      <4>1. \A i \in DOMAIN Content(a) : Alike(Content(new)[i], Content(a)[i])
        BY <3>3 DEF Alike
      <4> HIDE DEF new, a
      <4> QED
        BY <1>1, <3>3, <4>1, AlikeHolds
    <3>5. doc' = WithArray(new)
      BY <2>2, <2>5 DEF WithArray
    <3> HIDE DEF new
    <3> QED
      BY <1>1, <3>2, <3>4, <3>5, ArrayStep
  <2>6. CASE n # Array
    <3>1. Whole(doc') /\ Differs(doc', doc, n)
      BY <1>1, <2>2, <2>4, PutWhole, PutFacts DEF Whole
    <3> QED
      BY <1>1, <2>6, <3>1, MemberStep
  <2> QED
    BY <2>5, <2>6
<1>4. ASSUME NEW i \in DOMAIN Content(a), spot = <<Array, i>> PROVE BuildInv'
  <2> DEFINE w == PutAt(a, ArrayT, i, new)
  <2>1. spot # <<>> /\ Len(spot) = 2 /\ spot[2] = i
    BY <1>4
  <2>2. Referred(spot) = Content(a)[i] /\ doc' = WithArray(w)
    BY <1>1, <2>1 DEF Referred, Through
  <2>3. Constructed(Content(a)[i])
    BY <1>1 DEF Whole
  <2>4. Constructed(new) /\ Alike(new, Content(a)[i])
    BY <2>2, <2>3, CopyConstructed
  <2>5. Whole(w) /\ Differs(w, a, i) /\ Content(w)[i] = new
    <3> HIDE DEF new, a
    <3> QED
      BY <1>1, <2>4, PutWhole, PutFacts DEF Whole
  <2>6. Holds(w, list) /\ (LastTouched(w, list) <=> LastTouched(a, list))
    <3> HIDE DEF w, new, a
    <3>1. DOMAIN Content(w) = DOMAIN Content(a) /\ TypeOf(w) = ArrayT
      BY <1>1, <1>4, <2>5 DEF Differs
    <3>2. \A j \in DOMAIN Content(a) : Alike(Content(w)[j], Content(a)[j])
      BY <2>4, <2>5 DEF Differs, Alike
    <3> QED
      BY <1>1, <3>1, <3>2, AlikeHolds
  <2> HIDE DEF w
  <2> QED
    BY <1>1, <2>2, <2>5, <2>6, ArrayStep
<1> QED
  BY <1>2, <1>3, <1>4 DEF Spots

\* Every call keeps the invariant.
LEMMA BuildInvNext == BuildInv /\ [BuildNext]_buildVars => BuildInv'
<1> SUFFICES ASSUME BuildInv, [BuildNext]_buildVars PROVE BuildInv'
  OBVIOUS
<1>1. ASSUME NEW v \in Elements, Append_(v) PROVE BuildInv'
  BY <1>1, AppendStep
<1>2. ASSUME NEW i \in 0 .. MaxLength - 1, NEW v \in Elements, AssignElement(i, v)
      PROVE  BuildInv'
  BY <1>2, AssignElementStep
<1>3. ASSUME NEW n \in 0 .. MaxLength, ResizeArray(n) PROVE BuildInv'
  BY <1>3, ResizeArrayStep
<1>4. ASSUME ClearArray PROVE BuildInv'
  BY <1>4, ClearArrayStep
<1>5. ASSUME NEW name \in Names, NEW v \in Elements, AssignMember(name, v) PROVE BuildInv'
  BY <1>5, AssignMemberStep
<1>6. ASSUME NEW name \in Names, DeleteMember(name) PROVE BuildInv'
  BY <1>6, DeleteMemberStep
<1>7. ASSUME NEW spot \in Spots, NEW placement \in Before .. After, NEW text \in CommentTexts,
             Comment(spot, placement, text)
      PROVE  BuildInv'
  BY <1>7, CommentStep
<1>8. ASSUME UNCHANGED buildVars PROVE BuildInv'
  BY <1>8 DEF buildVars, BuildInv
<1> QED
  BY <1>1, <1>2, <1>3, <1>4, <1>5, <1>6, <1>7, <1>8 DEF BuildNext

\* The invariant of the documents that are being built.
LEMMA BuildInvAlways == BuildSpec => []BuildInv
BY BuildInvInit, BuildInvNext, PTL DEF BuildSpec

\* Whatever calls built it, for any names, any values and any number of
\* elements, the array of a document reads as the sequence it stands for.
THEOREM JsonArrayIsList == BuildSpec => []ArrayIsList
<1>1. BuildInv => ArrayIsList
  <2> SUFFICES ASSUME BuildInv PROVE ArrayIsList
    OBVIOUS
  <2> DEFINE a == TheArray(doc)
  <2>1. /\ Holds(a, list) /\ (aborted <=> ~LastTouched(a, list))
        /\ TypeOf(a) = ArrayT /\ ~IsNull(a)
    BY DEF BuildInv, DocOk, IsNull, NullT, ArrayT
  <2>2. /\ LastTouched(a, list) => SizeOf(a) = Len(list)
        /\ ~LastTouched(a, list) => SizeOf(a) < Len(list)
    <3> HIDE DEF a
    <3> QED
      BY <2>1, SizeOfArray
  <2>3. ASSUME NEW i \in 1 .. Len(list) PROVE Alike(Element(a, i), list[i])
    <3>1. CASE i - 1 \in DOMAIN Content(a)
      <4>1. Element(a, i) = Content(a)[i - 1]
        BY <2>1, <3>1 DEF Element, Get
      <4>2. Alike(Content(a)[i - 1], list[i - 1 + 1]) /\ i - 1 + 1 = i
        BY <2>1, <3>1 DEF Holds
      <4> QED
        BY <4>1, <4>2
    <3>2. CASE i - 1 \notin DOMAIN Content(a)
      <4>1. Element(a, i) = null
        BY <3>2 DEF Element, Get
      <4>2. list[i] = null
        BY <2>1, <3>2 DEF Holds
      <4> QED
        BY <4>1, <4>2 DEF Alike
    <3> QED
      BY <3>1, <3>2
  <2> QED
    BY <2>1, <2>2, <2>3 DEF ArrayIsList
<1> QED
  BY <1>1, BuildInvAlways, PTL

-----------------------------------------------------------------------------
(* Conversions.                                                            *)

\* The types of a value are distinct.
LEMMA TypesDiffer ==
    /\ NullT # IntT /\ NullT # UIntT /\ NullT # RealT /\ NullT # StringT /\ NullT # BoolT
    /\ NullT # ArrayT /\ NullT # ObjectT /\ IntT # UIntT /\ IntT # RealT /\ IntT # StringT
    /\ IntT # BoolT /\ IntT # ArrayT /\ IntT # ObjectT /\ UIntT # RealT /\ UIntT # StringT
    /\ UIntT # BoolT /\ UIntT # ArrayT /\ UIntT # ObjectT /\ RealT # StringT /\ RealT # BoolT
    /\ RealT # ArrayT /\ RealT # ObjectT /\ StringT # BoolT /\ StringT # ArrayT
    /\ StringT # ObjectT /\ BoolT # ArrayT /\ BoolT # ObjectT /\ ArrayT # ObjectT
BY DEF NullT, IntT, UIntT, RealT, StringT, BoolT, ArrayT, ObjectT

\* The bounds of the two integer types.
LEMMA Bounds ==
    /\ maxUInt \in Nat /\ maxInt \in Nat /\ minInt \in Int /\ minInt < 0
    /\ maxInt <= maxUInt /\ Million \in Nat /\ Million > 0
BY MaxUIntAssumption DEF maxInt, minInt, Million

\* The conversions of null.
LEMMA NullHonest == ASSUME NEW v, TypeOf(v) = NullT, Content(v) = 0 PROVE Honest(v)
<1>1. IsNull(v) /\ NullT \in NullT .. ObjectT /\ IntT \in NullT .. ObjectT
      /\ UIntT \in NullT .. ObjectT /\ RealT \in NullT .. ObjectT /\ StringT \in NullT .. ObjectT
  BY DEF IsNull, NullT, IntT, UIntT, RealT, StringT, ObjectT
<1>2. ConvertibleTo(v) = NullT .. ObjectT
  BY <1>1, TypesDiffer, Zenon DEF ConvertibleTo, IsNull
<1>3. AsInt(v) = {0} /\ ~AsBool(v) /\ AsDouble(v) = {0 * Million}
  BY <1>1, TypesDiffer, Zenon DEF AsInt, AsBool, AsDouble, IsNull
<1>4. AsUInt(v) = {i \in {0} : i >= 0} /\ AsString(v) = {<<>>}
  BY <1>1, TypesDiffer, Zenon DEF AsUInt, AsString, IsNull
<1>5. AsUInt(v) = {0}
  BY <1>4
<1> QED
  BY <1>1, <1>2, <1>3, <1>4, <1>5 DEF Honest

\* The conversions of an Int.
LEMMA IntHonest ==
    ASSUME NEW v, TypeOf(v) = IntT, Content(v) \in minInt .. maxInt PROVE Honest(v)
<1> DEFINE c == Content(v)
           Between(lo, hi, t) == IF lo <= c /\ c <= hi THEN {t} ELSE {}
<1>1. c \in Int /\ minInt <= c /\ c <= maxInt
  BY Bounds
<1>2. ConvertibleTo(v) = {RealT, StringT, BoolT} \cup {IntT}
                           \cup Between(0, 0, NullT) \cup Between(0, maxInt, UIntT)
  BY TypesDiffer, Zenon DEF ConvertibleTo, IsNull
<1>3. AsInt(v) = {c} /\ (AsBool(v) <=> c # 0) /\ AsDouble(v) = {c * Million}
  BY TypesDiffer, Zenon DEF AsInt, AsBool, AsDouble
<1>4. AsUInt(v) = {i \in {c} : i >= 0}
  BY TypesDiffer, Zenon DEF AsUInt
<1>5. IsNumber(v)
  BY DEF IsNumber
<1>6. /\ NullT \in ConvertibleTo(v) <=> c = 0
      /\ IntT \in ConvertibleTo(v) /\ RealT \in ConvertibleTo(v)
      /\ UIntT \in ConvertibleTo(v) <=> c >= 0
  BY <1>1, <1>2, TypesDiffer, Bounds
<1>7. IF c >= 0 THEN AsUInt(v) = {c} ELSE AsUInt(v) = {}
  BY <1>1, <1>4
<1> HIDE DEF c
<1> QED
  BY <1>3, <1>5, <1>6, <1>7 DEF Honest

\* The conversions of a UInt.
LEMMA UIntHonest ==
    ASSUME NEW v, TypeOf(v) = UIntT, Content(v) \in 0 .. maxUInt PROVE Honest(v)
<1> DEFINE c == Content(v)
           Between(lo, hi, t) == IF lo <= c /\ c <= hi THEN {t} ELSE {}
<1>1. c \in Nat /\ c <= maxUInt
  BY Bounds
<1>2. ConvertibleTo(v) = {RealT, StringT, BoolT} \cup {UIntT}
                           \cup Between(0, 0, NullT) \cup Between(0, maxInt, IntT)
  BY TypesDiffer, Zenon DEF ConvertibleTo, IsNull
<1>3. AsInt(v) = {u \in {c} : u < maxInt} /\ (AsBool(v) <=> c # 0) /\ AsDouble(v) = {c * Million}
  BY TypesDiffer, Zenon DEF AsInt, AsBool, AsDouble
<1>4. AsUInt(v) = {i \in {c} : i >= 0}
  BY TypesDiffer, Zenon DEF AsUInt
<1>5. IsNumber(v)
  BY DEF IsNumber
<1>6. /\ NullT \in ConvertibleTo(v) <=> c = 0
      /\ UIntT \in ConvertibleTo(v) /\ RealT \in ConvertibleTo(v)
      /\ IntT \in ConvertibleTo(v) <=> c <= maxInt
  BY <1>1, <1>2, TypesDiffer, Bounds
<1>7. AsUInt(v) = {c} /\ AsInt(v) = IF c < maxInt THEN {c} ELSE {}
  BY <1>1, <1>3, <1>4
<1>8. c <= maxInt => c < maxInt \/ c = maxInt
  BY <1>1, Bounds
<1>9. c < maxInt => c <= maxInt
  BY <1>1, Bounds
<1> QED
  BY <1>3, <1>5, <1>6, <1>7, <1>8, <1>9 DEF Honest

\* The conversions of a double.
LEMMA RealHonest == ASSUME NEW v, TypeOf(v) = RealT, Content(v) \in Int PROVE Honest(v)
<1> DEFINE c == Content(v)
           Between(lo, hi, t) == IF lo <= c /\ c <= hi THEN {t} ELSE {}
           lowest == minInt * Million
           most == maxInt * Million
           greatest == maxUInt * Million
<1>1. c \in Int /\ lowest \in Int /\ most \in Int /\ greatest \in Int
  BY Bounds DEF Million
<1>2. ConvertibleTo(v) = {RealT, StringT, BoolT} \cup Between(0, 0, NullT)
                           \cup Between(lowest, most, IntT) \cup Between(0, greatest, UIntT)
  BY TypesDiffer, Zenon DEF ConvertibleTo, IsNull
<1>3. AsInt(v) = {Truncate(r) : r \in {c} \cap lowest .. most} /\ (AsBool(v) <=> c # 0)
      /\ AsDouble(v) = {c}
  BY TypesDiffer, Zenon DEF AsInt, AsBool, AsDouble
<1>4. AsUInt(v) = {Truncate(r) : r \in {c} \cap 0 .. greatest}
  BY TypesDiffer, Zenon DEF AsUInt
<1>5. IsNumber(v)
  BY DEF IsNumber
<1> HIDE DEF lowest, most, greatest
<1>6. /\ NullT \in ConvertibleTo(v) <=> c = 0
      /\ RealT \in ConvertibleTo(v)
      /\ IntT \in ConvertibleTo(v) <=> lowest <= c /\ c <= most
      /\ UIntT \in ConvertibleTo(v) <=> 0 <= c /\ c <= greatest
  BY <1>1, <1>2, TypesDiffer
<1> HIDE DEF c
<1>7. /\ AsInt(v) = IF lowest <= c /\ c <= most THEN {Truncate(c)} ELSE {}
      /\ AsUInt(v) = IF 0 <= c /\ c <= greatest THEN {Truncate(c)} ELSE {}
  BY <1>1, <1>3, <1>4
<1> QED
  BY <1>3, <1>5, <1>6, <1>7 DEF Honest

\* The conversions of a string.
LEMMA StringHonest == ASSUME NEW v, TypeOf(v) = StringT PROVE Honest(v)
<1>1. ConvertibleTo(v) = {TypeOf(v)} \cup (IF AsBool(v) THEN {} ELSE {NullT})
  BY TypesDiffer, Zenon DEF ConvertibleTo, IsNull
<1>2. AsInt(v) = {-1} /\ AsUInt(v) = {} /\ AsDouble(v) = {}
  BY TypesDiffer, Zenon DEF AsInt, AsUInt, AsDouble
<1>3. AsBool(v) <=> Content(v) \notin {NullString, <<>>}
  BY TypesDiffer, Zenon DEF AsBool
<1>4. AsString(v) = {IF Content(v) = NullString THEN <<>> ELSE Content(v)}
  BY TypesDiffer, Zenon DEF AsString, IsNull
<1>5. ~AsBool(v) => AsString(v) = {<<>>}
  BY <1>3, <1>4, Zenon
<1>6. /\ IntT \notin ConvertibleTo(v) /\ UIntT \notin ConvertibleTo(v)
      /\ RealT \notin ConvertibleTo(v) /\ (NullT \in ConvertibleTo(v) <=> ~AsBool(v))
  BY <1>1, TypesDiffer
<1> QED
  BY <1>2, <1>5, <1>6 DEF Honest

\* The conversions of a bool.
LEMMA BoolHonest == ASSUME NEW v, TypeOf(v) = BoolT, Content(v) \in BOOLEAN PROVE Honest(v)
<1> DEFINE c == Content(v)
<1>1. ConvertibleTo(v) = {RealT, StringT, BoolT} \cup {IntT, UIntT} \cup (IF c THEN {} ELSE {NullT})
  BY TypesDiffer, Zenon DEF ConvertibleTo, IsNull
<1>2. AsInt(v) = {BoolInt(c)} /\ AsUInt(v) = {BoolInt(c)} /\ AsDouble(v) = {BoolInt(c) * Million}
  BY TypesDiffer, Zenon DEF AsInt, AsUInt, AsDouble
<1>3. AsBool(v) <=> c
  BY TypesDiffer, Zenon DEF AsBool
<1>4. AsString(v) = {IF c THEN T("true") ELSE T("false")}
  BY TypesDiffer, Zenon DEF AsString, IsNull
<1>5. ~c => AsString(v) = {T("false")}
  BY <1>4, Zenon
<1>6. NullT \in ConvertibleTo(v) <=> ~c
  BY <1>1, TypesDiffer, Zenon
<1>7. IntT \in ConvertibleTo(v) /\ UIntT \in ConvertibleTo(v) /\ RealT \in ConvertibleTo(v)
  BY <1>1
<1> QED
  BY <1>2, <1>3, <1>5, <1>6, <1>7, Zenon DEF Honest

\* The conversions of an array or an object.
LEMMA ContainerHonest == ASSUME NEW v, Container(v) PROVE Honest(v)
<1>1. TypeOf(v) \in {ArrayT, ObjectT} /\ TypeOf(v) \notin {NullT, IntT, UIntT, RealT, StringT, BoolT}
  BY TypesDiffer DEF Container
<1>2. ConvertibleTo(v) = {TypeOf(v)} \cup (IF AsBool(v) THEN {} ELSE {NullT})
  BY <1>1, Zenon DEF ConvertibleTo, IsNull
<1>3. AsInt(v) = {-1} /\ AsUInt(v) = {} /\ AsDouble(v) = {}
  BY <1>1, Zenon DEF AsInt, AsUInt, AsDouble
<1>4. /\ IntT \notin ConvertibleTo(v) /\ UIntT \notin ConvertibleTo(v)
      /\ RealT \notin ConvertibleTo(v) /\ StringT \notin ConvertibleTo(v)
      /\ (NullT \in ConvertibleTo(v) <=> ~AsBool(v))
  BY <1>1, <1>2, TypesDiffer
<1> QED
  BY <1>3, <1>4 DEF Honest

\* For any width of the integers, the conversions of every value a program
\* can build or be given do what isConvertibleTo says of it.
THEOREM JsonConversionsHonest == BuildSpec => []ConversionsHonest
<1>1. ASSUME NEW v, Constructed(v) PROVE Honest(v)
  BY <1>1, NullHonest, IntHonest, UIntHonest, RealHonest, StringHonest, BoolHonest,
     ContainerHonest DEF Constructed, Container
<1>2. BuildInv => ConversionsHonest
  <2> SUFFICES ASSUME BuildInv, NEW v \in Inside PROVE Constructed(v)
    BY <1>1 DEF ConversionsHonest
  <2>1. Whole(doc) /\ Whole(TheArray(doc))
    BY DEF BuildInv, DocOk
  <2>2. ASSUME NEW s \in Spots PROVE Constructed(Referred(s))
    <3>1. CASE s = <<>>
      BY <2>1, <3>1 DEF Referred, Whole
    <3>2. ASSUME NEW n \in DOMAIN Content(doc), s = <<n>> PROVE Constructed(Referred(s))
      <4>1. s # <<>> /\ Len(s) = 1 /\ s[1] = n
        BY <3>2
      <4> QED
        BY <2>1, <4>1 DEF Referred, Whole
    <3>3. ASSUME NEW i \in DOMAIN Content(TheArray(doc)), s = <<Array, i>>
          PROVE  Constructed(Referred(s))
      <4>1. s # <<>> /\ Len(s) = 2 /\ s[2] = i
        BY <3>3
      <4> QED
        BY <2>1, <4>1 DEF Referred, Whole
    <3> QED
      BY <3>1, <3>2, <3>3 DEF Spots
  <2> QED
    BY <2>2, BuildAssumption DEF Inside
<1> QED
  BY <1>2, BuildInvAlways, PTL

-----------------------------------------------------------------------------
(* The nodes of TinyXML.                                                   *)

\* A node has its contents and its links.
Fields == {"type", "value", "attrs", "parent", "firstChild", "lastChild", "prev", "next"}
IsHeap(h) == DOMAIN h \in SUBSET Places /\ \A i \in DOMAIN h : DOMAIN h[i] = Fields

\* The links of h agree with the rows of children in k: each row is linked, a
\* node that is no root is in its parent's row, and following the parents from
\* any node ends at a root: a set that holds every node without a parent, and
\* with a node its children, holds them all.
Grounded(h) ==
    \A S \in SUBSET DOMAIN h :
        (\A i \in DOMAIN h : h[i].parent \in S \cup {Null} => i \in S) => S = DOMAIN h
Parents(h, k) ==
    \A i \in DOMAIN h : \/ h[i].parent = Null
                        \/ /\ h[i].parent \in DOMAIN h
                           /\ \E n \in 1..Len(k[h[i].parent]) : k[h[i].parent][n] = i
Rows(h, k) == /\ DOMAIN k = DOMAIN h
              /\ \A p \in DOMAIN h : k[p] \in Seq(DOMAIN h) /\ Row(h, p, k[p])
Forest(h, k) == IsHeap(h) /\ Rows(h, k) /\ Parents(h, k) /\ Grounded(h)

\* The null pointer is no node.
LEMMA NullIsNoPlace == ASSUME NEW h, IsHeap(h) PROVE Null \notin DOMAIN h
  BY XmlLinksAssumption DEF IsHeap, Places, Null

\* One link is written.
Writes(g, h, i, link, to) ==
    /\ IsHeap(g) /\ DOMAIN g = DOMAIN h
    /\ \A j \in DOMAIN h, f \in Fields : g[j][f] = IF j = i /\ f = link THEN to ELSE h[j][f]

\* Set writes its link, and nothing when the node is null.
LEMMA SetFacts ==
    ASSUME NEW h, NEW i, NEW link \in Fields, NEW to, IsHeap(h), i \in DOMAIN h \cup {Null}
    PROVE  Writes(Set(h, i, link, to), h, i, link, to)
<1>1. CASE i = Null
  <2>1. Set(h, i, link, to) = h /\ i \notin DOMAIN h
    BY <1>1, NullIsNoPlace DEF Set
  <2> QED
    BY <2>1 DEF Writes
<1>2. CASE i # Null
  <2> DEFINE n == [h[i] EXCEPT ![link] = to]
             g == [h EXCEPT ![i] = n]
  <2>1. Set(h, i, link, to) = g /\ i \in DOMAIN h
    BY <1>2 DEF Set
  <2>2. DOMAIN h[i] = Fields
    BY <2>1 DEF IsHeap
  <2>3. DOMAIN n = Fields /\ \A f \in Fields : n[f] = IF f = link THEN to ELSE h[i][f]
    BY <2>2
  <2> HIDE DEF n
  <2>4. DOMAIN g = DOMAIN h /\ \A j \in DOMAIN h : g[j] = IF j = i THEN n ELSE h[j]
    BY <2>1
  <2> HIDE DEF g
  <2>5. IsHeap(g)
    BY <2>3, <2>4 DEF IsHeap
  <2> QED
    BY <2>1, <2>3, <2>4, <2>5 DEF Writes
<1> QED
  BY <1>1, <1>2

-----------------------------------------------------------------------------
\* Where a row's links lead.
LEMMA RowFacts ==
    ASSUME NEW h, NEW k, Forest(h, k), NEW p \in DOMAIN h
    PROVE  /\ Len(k[p]) \in Nat
           /\ \A n \in 1..Len(k[p]) : k[p][n] \in DOMAIN h /\ h[k[p][n]].parent = p
           /\ \A n, l \in 1..Len(k[p]) : k[p][n] = k[p][l] => n = l
<1>1. k[p] \in Seq(DOMAIN h) /\ Row(h, p, k[p])
  BY DEF Forest, Rows
<1>2. Len(k[p]) \in Nat /\ \A n \in 1..Len(k[p]) : k[p][n] \in DOMAIN h
  BY <1>1
<1>3. \A n \in 1..Len(k[p]) : h[k[p][n]].parent = p /\ \A l \in 1..n - 1 : k[p][l] # k[p][n]
  BY <1>1 DEF Row
<1>4. ASSUME NEW n \in 1..Len(k[p]), NEW l \in 1..Len(k[p]), k[p][n] = k[p][l] PROVE n = l
  <2>1. ~(l < n)
    BY <1>2, <1>3, <1>4
  <2>2. ~(n < l)
    BY <1>2, <1>3, <1>4
  <2> QED
    BY <1>2, <2>1, <2>2
<1> QED
  BY <1>2, <1>3, <1>4

\* The first child is a child, and next leads to a sibling.
LEMMA LinkTargets ==
    ASSUME NEW h, NEW k, Forest(h, k), NEW x \in DOMAIN h
    PROVE  /\ h[x].firstChild # Null =>
                  h[x].firstChild \in DOMAIN h /\ h[h[x].firstChild].parent = x
           /\ h[x].parent # Null /\ h[x].next # Null =>
                  h[x].next \in DOMAIN h /\ h[h[x].next].parent = h[x].parent
<1>1. Row(h, x, k[x]) /\ k[x] \in Seq(DOMAIN h)
  BY DEF Forest, Rows
<1>2. ASSUME h[x].firstChild # Null
      PROVE  h[x].firstChild \in DOMAIN h /\ h[h[x].firstChild].parent = x
  <2>1. 1 \in 1..Len(k[x]) /\ h[x].firstChild = k[x][1]
    BY <1>1, <1>2 DEF Row, EntryOr0
  <2> QED
    BY <2>1, RowFacts
<1>3. ASSUME h[x].parent # Null, h[x].next # Null
      PROVE  h[x].next \in DOMAIN h /\ h[h[x].next].parent = h[x].parent
  <2> DEFINE p == h[x].parent
  <2>1. p \in DOMAIN h
    BY <1>3 DEF Forest, Parents
  <2>2. PICK n \in 1..Len(k[p]) : k[p][n] = x
    BY <1>3 DEF Forest, Parents
  <2>3. Row(h, p, k[p]) /\ Len(k[p]) \in Nat
    BY <2>1 DEF Forest, Rows
  <2>4. h[x].next = EntryOr0(k[p], n + 1)
    BY <2>2, <2>3 DEF Row
  <2>5. n + 1 \in 1..Len(k[p]) /\ h[x].next = k[p][n + 1]
    BY <1>3, <2>4 DEF EntryOr0
  <2> QED
    BY <2>1, <2>5, RowFacts
<1> QED
  BY <1>2, <1>3

\* What is below a node: it and its children's children, and nothing else.
IsBelow(h, i, B) ==
    /\ B \in SUBSET DOMAIN h
    /\ \A j \in DOMAIN h : j \in B <=> h[j].parent \in {i} \cup B
    /\ \A S \in SUBSET DOMAIN h :
          (\A j \in DOMAIN h : h[j].parent \in {i} \cup S => j \in S) => B \subseteq S

\* In a forest the least set that the links reach is the children, their children
\* and so on, so a destructor deletes these and no other.
LEMMA BelowIs ==
    ASSUME NEW h, NEW k, Forest(h, k), NEW i \in DOMAIN h
    PROVE  IsBelow(h, i, Below(h, i)) /\ Reaches(h, i, Below(h, i))
<1> DEFINE D == DOMAIN h
           B == Below(h, i)
           owned == {j \in D : h[j].parent # Null}
<1>1. Null \notin D
  BY NullIsNoPlace DEF Forest
<1>2. ASSUME NEW S \in SUBSET D, Reaches(h, i, S) PROVE B \subseteq S
  BY <1>2 DEF Below
<1>3. Reaches(h, i, owned)
  BY <1>1, LinkTargets DEF Reaches
<1>4. B \subseteq owned
  BY <1>2, <1>3
<1>5. Reaches(h, i, B)
  <2>1. ASSUME h[i].firstChild # Null PROVE h[i].firstChild \in B
    <3>1. h[i].firstChild \in D
      BY <2>1, LinkTargets
    <3> QED
      BY <2>1, <3>1 DEF Below, Reaches
  <2>2. ASSUME NEW j \in B, h[j].firstChild # Null PROVE h[j].firstChild \in B
    <3>1. h[j].firstChild \in D
      BY <1>4, <2>2, LinkTargets
    <3> QED
      BY <2>2, <3>1 DEF Below, Reaches
  <2>3. ASSUME NEW j \in B, h[j].next # Null PROVE h[j].next \in B
    <3>1. h[j].next \in D
      BY <1>4, <2>3, LinkTargets
    <3> QED
      BY <2>3, <3>1 DEF Below, Reaches
  <2> QED
    BY <2>1, <2>2, <2>3 DEF Reaches
<1> HIDE DEF B
<1>6. ASSUME NEW S \in SUBSET D, \A j \in D : h[j].parent \in {i} \cup S => j \in S
      PROVE  B \subseteq S
  <2> DEFINE U == {j \in S \cap B : h[j].parent \in {i} \cup (S \cap B)}
  <2>1. h[i].firstChild \in U \cup {Null}
    BY <1>5, <1>6, LinkTargets DEF Reaches
  <2>2. ASSUME NEW j \in U PROVE h[j].firstChild \in U \cup {Null}
    BY <1>5, <1>6, LinkTargets DEF Reaches
  <2>3. ASSUME NEW j \in U PROVE h[j].next \in U \cup {Null}
    <3>1. j \in owned /\ j \in B
      BY <1>4
    <3>2. CASE h[j].next # Null
      <4>1. h[j].next \in B /\ h[j].next \in D /\ h[h[j].next].parent = h[j].parent
        BY <1>5, <3>1, <3>2, LinkTargets DEF Reaches
      <4> QED
        BY <1>6, <4>1
    <3> QED
      BY <3>2
  <2>4. Reaches(h, i, U) /\ U \in SUBSET D
    BY <2>1, <2>2, <2>3 DEF Reaches
  <2> QED
    BY <1>2, <2>4
<1>7. ASSUME NEW j \in B PROVE h[j].parent \in {i} \cup B
  <2> DEFINE U == {x \in B : h[x].parent \in {i} \cup B}
  <2>1. h[i].firstChild \in U \cup {Null}
    BY <1>5, LinkTargets DEF Reaches
  <2>2. ASSUME NEW x \in U PROVE h[x].firstChild \in U \cup {Null}
    <3>1. x \in D /\ x \in B
      BY <1>4
    <3> QED
      BY <1>5, <3>1, LinkTargets DEF Reaches
  <2>3. ASSUME NEW x \in U PROVE h[x].next \in U \cup {Null}
    <3>1. x \in owned /\ x \in B
      BY <1>4
    <3> QED
      BY <1>5, <3>1, LinkTargets DEF Reaches
  <2>4. Reaches(h, i, U) /\ U \in SUBSET D
    BY <1>4, <2>1, <2>2, <2>3 DEF Reaches
  <2> QED
    BY <1>2, <2>4
<1>8. ASSUME NEW j \in D, h[j].parent \in {i} \cup B PROVE j \in B
  <2> DEFINE x == h[j].parent
             q == k[x]
             M == {n \in 0..Len(q) : n = 0 \/ q[n] \in B}
  <2>1. x \in D /\ x # Null
    BY <1>1, <1>4, <1>8
  <2>2. Row(h, x, q) /\ Len(q) \in Nat
    BY <2>1 DEF Forest, Rows
  <2>3. PICK n \in 1..Len(q) : q[n] = j
    BY <2>1 DEF Forest, Parents
  <2>4. h[x].firstChild \in B \cup {Null}
    BY <1>5, <1>8 DEF Reaches
  <2>5. 1 \in 1..Len(q) => q[1] \in B
    <3>1. ASSUME 1 \in 1..Len(q) PROVE h[x].firstChild = q[1] /\ q[1] \in D
      BY <2>1, <2>2, <3>1, RowFacts DEF Row, EntryOr0
    <3> QED
      BY <1>1, <2>4, <3>1
  <2>6. ASSUME NEW l \in 1..Len(q), l - 1 \in M PROVE l \in M
    <3>1. CASE l = 1
      BY <2>5, <3>1
    <3>2. CASE l # 1
      <4>1. l - 1 \in 1..Len(q) /\ q[l - 1] \in B /\ q[l] \in D
        BY <2>1, <2>2, <2>6, <3>2, RowFacts
      <4>2. h[q[l - 1]].next = EntryOr0(q, (l - 1) + 1) /\ (l - 1) + 1 = l
        BY <2>2, <4>1 DEF Row
      <4>3. h[q[l - 1]].next = q[l]
        BY <4>2 DEF EntryOr0
      <4>4. q[l] \in B
        BY <1>1, <1>5, <4>1, <4>3 DEF Reaches
      <4> QED
        BY <4>4
    <3> QED
      BY <3>1, <3>2
  <2>7. \A l \in 0..Len(q) : l \in M
    <3>1. 0 \in M
      BY <2>2
    <3> HIDE DEF M, q
    <3> QED
      BY <2>2, <2>6, <3>1, Counting
  <2> QED
    BY <2>2, <2>3, <2>7
<1>9. B \in SUBSET D
  BY <1>4
<1> QED
  <2>1. IsBelow(h, i, B)
    BY <1>6, <1>7, <1>8, <1>9 DEF IsBelow
  <2> QED
    BY <1>5, <2>1 DEF B

\* A node below another has less below it, and never itself.
LEMMA BelowIsDeeper ==
    ASSUME NEW h, NEW k, Forest(h, k), NEW i \in DOMAIN h, NEW j \in {i} \cup Below(h, i)
    PROVE  j \in DOMAIN h /\ Below(h, j) \subseteq Below(h, i)
<1>1. IsBelow(h, i, Below(h, i))
  BY BelowIs
<1>2. j \in DOMAIN h
  BY <1>1 DEF IsBelow
<1>3. IsBelow(h, j, Below(h, j))
  BY <1>2, BelowIs
<1>4. \A x \in DOMAIN h : h[x].parent \in {j} \cup Below(h, i) => x \in Below(h, i)
  BY <1>1 DEF IsBelow
<1> QED
  BY <1>1, <1>2, <1>3, <1>4 DEF IsBelow

\* No node is below itself: its parents would not end at a root.
LEMMA NotBelowItself ==
    ASSUME NEW h, NEW k, Forest(h, k), NEW i \in DOMAIN h
    PROVE  i \notin Below(h, i) /\ h[i].parent \notin {i} \cup Below(h, i)
<1> DEFINE S == {x \in DOMAIN h : x \notin Below(h, x)}
<1>1. ASSUME NEW x \in DOMAIN h, h[x].parent \in S \cup {Null}, x \in Below(h, x) PROVE FALSE
  <2> DEFINE p == h[x].parent
  <2>1. p \in {x} \cup Below(h, x)
    BY <1>1, BelowIs DEF IsBelow
  <2>2. p \in DOMAIN h /\ p \notin Below(h, p)
    BY <1>1, <2>1, BelowIsDeeper, NullIsNoPlace DEF Forest
  <2>3. x \in Below(h, p)
    BY <2>2, BelowIs DEF IsBelow
  <2>4. Below(h, x) \subseteq Below(h, p)
    BY <2>2, <2>3, BelowIsDeeper
  <2> QED
    BY <2>1, <2>2, <2>3, <2>4
<1>2. S = DOMAIN h
  <2>1. \A x \in DOMAIN h : h[x].parent \in S \cup {Null} => x \in S
    BY <1>1
  <2>2. S \in SUBSET DOMAIN h /\ Grounded(h)
    BY DEF Forest
  <2> HIDE DEF S
  <2> QED
    BY <2>1, <2>2 DEF Grounded
<1>3. i \notin Below(h, i)
  BY <1>2
<1>4. h[i].parent \in {i} \cup Below(h, i) => i \in Below(h, i)
  BY BelowIs DEF IsBelow
<1> QED
  BY <1>3, <1>4

\* What is below a node depends on the links there only.
LEMMA BelowSame ==
    ASSUME NEW h, NEW k, NEW g, Forest(h, k), NEW i \in DOMAIN h, DOMAIN h \subseteq DOMAIN g,
           g[i].firstChild = h[i].firstChild,
           \A j \in Below(h, i) : /\ g[j].firstChild = h[j].firstChild
                                  /\ g[j].next = h[j].next
    PROVE  Below(g, i) = Below(h, i)
<1> DEFINE B == Below(h, i)
<1>1. Reaches(h, i, B) /\ B \in SUBSET DOMAIN h
  BY BelowIs DEF IsBelow
<1>2. Reaches(g, i, B)
  BY <1>1 DEF Reaches
<1>3. Below(g, i) \subseteq B
  BY <1>1, <1>2 DEF Below
<1>4. ASSUME NEW S \in SUBSET DOMAIN g, Reaches(g, i, S) PROVE B \subseteq S
  <2>1. Reaches(h, i, S \cap B) /\ S \cap B \in SUBSET DOMAIN h
    BY <1>1, <1>4 DEF Reaches
  <2> QED
    BY <2>1 DEF Below
<1>5. B \subseteq Below(g, i)
  BY <1>1, <1>4 DEF Below
<1> QED
  BY <1>3, <1>5
\* The row of p changes, by which i may become its child and the nodes in
\* gone are left out.
Reworked(h, k, g, l, p, i, gone) ==
    /\ IsHeap(g) /\ DOMAIN g = DOMAIN h \ gone /\ DOMAIN l = DOMAIN g
    /\ gone \in SUBSET DOMAIN h
    /\ \A j \in DOMAIN h : h[j].parent \in gone => j \in gone
    /\ \A j \in gone : h[j].parent \in gone \cup {p, Null}
    /\ \A j \in DOMAIN g \ {i} : g[j].parent = h[j].parent
    /\ \A j \in DOMAIN g : h[j].parent \notin {p, Null} =>
                               g[j].next = h[j].next /\ g[j].prev = h[j].prev
    /\ \A x \in DOMAIN g \ {p} : /\ g[x].firstChild = h[x].firstChild
                                 /\ g[x].lastChild = h[x].lastChild
                                 /\ l[x] = k[x]
    /\ p # Null => /\ p \in DOMAIN g /\ l[p] \in Seq(DOMAIN g) /\ Row(g, p, l[p])
                   /\ \A j \in DOMAIN g : g[j].parent = p => \E n \in 1..Len(l[p]) : l[p][n] = j
    /\ i # Null => /\ i \in DOMAIN g /\ p # Null /\ h[i].parent = Null /\ g[i].parent = p
                   /\ p \notin {i} \cup Below(h, i)

\* A forest stays one when a single row is changed and linked again, what is gone
\* was closed downwards, and a new child was a root that is not above the row.
LEMMA ReworkedForest ==
    ASSUME NEW h, NEW k, NEW g, NEW l, NEW p, NEW i, NEW gone, Forest(h, k),
           Reworked(h, k, g, l, p, i, gone)
    PROVE  Forest(g, l)
<1> DEFINE D == DOMAIN h
           E == DOMAIN g
<1>1. /\ IsHeap(g) /\ E = D \ gone /\ DOMAIN l = E /\ gone \in SUBSET D
      /\ Null \notin D
  BY NullIsNoPlace DEF Reworked, Forest
<1>2. ASSUME NEW x \in E \ {p}
      PROVE  l[x] = k[x] /\ l[x] \in Seq(E) /\ Row(g, x, l[x])
  <2> DEFINE q == k[x]
  <2>1. /\ l[x] = q /\ x \in D /\ x \notin gone /\ x # Null
        /\ g[x].firstChild = h[x].firstChild /\ g[x].lastChild = h[x].lastChild
    BY <1>1, <1>2 DEF Reworked
  <2>2. q \in Seq(D) /\ Len(q) \in Nat /\ Row(h, x, q)
    BY <2>1 DEF Forest, Rows
  <2>3. ASSUME NEW n \in 1..Len(q)
        PROVE  /\ q[n] \in E /\ g[q[n]].parent = x
               /\ g[q[n]].next = h[q[n]].next /\ g[q[n]].prev = h[q[n]].prev
    <3>1. q[n] \in D /\ h[q[n]].parent = x
      BY <2>1, RowFacts
    <3>2. q[n] \notin gone
      BY <1>2, <2>1, <3>1 DEF Reworked
    <3>3. q[n] \in E
      BY <1>1, <3>1, <3>2
    <3>4. q[n] # i
      BY <2>1, <3>1, <1>1 DEF Reworked
    <3> QED
      BY <1>2, <2>1, <3>1, <3>3, <3>4 DEF Reworked
  <2>4. q \in Seq(E)
    BY <2>2, <2>3
  <2>5. Row(g, x, q)
    BY <2>1, <2>2, <2>3 DEF Row
  <2> QED
    BY <2>1, <2>4, <2>5
<1>3. Rows(g, l)
  <2>1. ASSUME p \in E PROVE l[p] \in Seq(E) /\ Row(g, p, l[p])
    BY <1>1, <2>1 DEF Reworked
  <2> QED
    BY <1>1, <1>2, <2>1 DEF Rows
<1>4. Parents(g, l)
  <2> SUFFICES ASSUME NEW j \in E, g[j].parent # Null
               PROVE  /\ g[j].parent \in E
                      /\ \E n \in 1..Len(l[g[j].parent]) : l[g[j].parent][n] = j
    BY DEF Parents
  <2>1. CASE g[j].parent = p
    BY <2>1 DEF Reworked
  <2>2. CASE g[j].parent # p
    <3> DEFINE x == g[j].parent
    <3>1. j # i
      BY <1>1, <2>2 DEF Reworked
    <3>2. j \in D /\ j \notin gone /\ h[j].parent = x
      BY <1>1, <3>1 DEF Reworked
    <3>3. x \in D /\ \E n \in 1..Len(k[x]) : k[x][n] = j
      BY <3>2 DEF Forest, Parents
    <3>4. x \in E \ {p}
      BY <1>1, <2>2, <3>2, <3>3 DEF Reworked
    <3> QED
      BY <1>2, <3>3, <3>4
  <2> QED
    BY <2>1, <2>2
<1>5. Grounded(g)
  <2> SUFFICES ASSUME NEW S \in SUBSET E, \A j \in E : g[j].parent \in S \cup {Null} => j \in S
               PROVE  S = E
    BY DEF Grounded
  <2>1. ASSUME NEW U \in SUBSET D, \A j \in D : h[j].parent \in U \cup {Null} => j \in U PROVE U = D
    BY <2>1 DEF Forest, Grounded
  <2>2. CASE i = Null
    <3>1. \A j \in D : h[j].parent \in (S \cup gone) \cup {Null} => j \in S \cup gone
      BY <1>1, <2>2 DEF Reworked
    <3> QED
      BY <1>1, <2>1, <3>1
  <2>3. CASE i # Null
    <3> DEFINE B == Below(h, i)
               U == S \cup gone \cup {i} \cup B
    <3>1. /\ i \in E /\ i \in D /\ i \notin gone /\ p \in E /\ p \notin gone /\ h[i].parent = Null
          /\ g[i].parent = p /\ p \notin {i} \cup B
      BY <1>1, <2>3 DEF Reworked
    <3>2. IsBelow(h, i, B)
      BY <3>1, BelowIs
    <3>3. ASSUME NEW j \in D, h[j].parent \in U \cup {Null} PROVE j \in U
      <4>1. CASE j = i
        BY <4>1
      <4>2. CASE j \in gone
        BY <4>2
      <4>3. CASE j # i /\ j \notin gone
        <5>1. j \in E /\ g[j].parent = h[j].parent /\ h[j].parent \notin gone
          BY <1>1, <4>3 DEF Reworked
        <5>2. CASE h[j].parent \in {i} \cup B
          BY <3>2, <5>2 DEF IsBelow
        <5>3. CASE h[j].parent \in S \cup {Null}
          BY <5>1, <5>3
        <5> QED
          BY <3>3, <5>1, <5>2, <5>3
      <4> QED
        BY <4>1, <4>2, <4>3
    <3>4. U \in SUBSET D
      BY <1>1, <3>1, <3>2 DEF IsBelow
    <3>5. U = D
      BY <2>1, <3>3, <3>4
    <3>6. i \in S
      BY <1>1, <3>1, <3>5
    <3>7. ASSUME NEW j \in D, h[j].parent \in {i} \cup (S \cup gone) PROVE j \in S \cup gone
      <4>1. CASE j = i \/ j \in gone
        BY <3>6, <4>1
      <4>2. CASE j # i /\ j \notin gone
        BY <1>1, <3>6, <3>7, <4>2 DEF Reworked
      <4> QED
        BY <4>1, <4>2
    <3>8. B \subseteq S \cup gone
      <4>1. S \cup gone \in SUBSET D
        BY <1>1
      <4> HIDE DEF B
      <4> QED
        BY <3>2, <3>7, <4>1 DEF IsBelow
    <3> QED
      BY <1>1, <3>5, <3>6, <3>8
  <2> QED
    BY <2>2, <2>3
<1> QED
  BY <1>1, <1>3, <1>4, <1>5 DEF Forest

-----------------------------------------------------------------------------
\* i comes to the place a of the row q.
Enlarged(r, q, a, i) ==
    /\ Len(r) = Len(q) + 1
    /\ \A m \in 1..Len(q) + 1 : r[m] = IF m < a THEN q[m] ELSE IF m = a THEN i ELSE q[m - 1]

\* InsertAt makes room at a place of a row.
LEMMA InsertAtIs ==
    ASSUME NEW S, NEW q \in Seq(S), NEW i \in S, NEW a \in 1..Len(q) + 1
    PROVE  InsertAt(q, a, i) \in Seq(S) /\ Enlarged(InsertAt(q, a, i), q, a, i)
<1> DEFINE before == SubSeq(q, 1, a - 1)
           after == SubSeq(q, a, Len(q))
<1>1. Len(q) \in Nat /\ \A m \in 1..Len(q) : q[m] \in S
  OBVIOUS
<1>2. before \in Seq(S) /\ Len(before) = a - 1 /\ \A m \in 1..a - 1 : before[m] = q[m]
  BY <1>1, Beginnings
<1>3. after \in Seq(S) /\ Len(after) = Len(q) + 1 - a
      /\ \A m \in 1..Len(q) + 1 - a : after[m] = q[a + m - 1]
  BY <1>1, SubSeqProperties
<1>4. <<i>> \in Seq(S) /\ Len(<<i>>) = 1 /\ <<i>>[1] = i
  OBVIOUS
<1> HIDE DEF before, after
<1> DEFINE front == before \o <<i>>
<1>5. /\ front \in Seq(S) /\ Len(front) = a
      /\ \A m \in 1..a : front[m] = IF m <= a - 1 THEN q[m] ELSE i
  BY <1>1, <1>2, <1>4
<1> HIDE DEF front
<1>6. /\ front \o after \in Seq(S) /\ Len(front \o after) = Len(q) + 1
      /\ \A m \in 1..Len(q) + 1 : (front \o after)[m] = IF m <= a THEN front[m] ELSE after[m - a]
  <2>1. /\ front \o after \in Seq(S) /\ Len(front \o after) = Len(front) + Len(after)
        /\ \A m \in 1..Len(front) + Len(after) :
              (front \o after)[m] = IF m <= Len(front) THEN front[m] ELSE after[m - Len(front)]
    BY <1>3, <1>5, ConcatProperties, Zenon
  <2>2. Len(front) + Len(after) = Len(q) + 1
    BY <1>1, <1>3, <1>5
  <2> QED
    BY <1>5, <2>1, <2>2, Zenon
<1>7. InsertAt(q, a, i) = front \o after
  BY DEF InsertAt, front, before, after
<1>8. ASSUME NEW m \in 1..Len(q) + 1
      PROVE  (front \o after)[m] = IF m < a THEN q[m] ELSE IF m = a THEN i ELSE q[m - 1]
  <2>1. CASE m <= a
    <3>1. m <= a - 1 <=> m < a
      BY <1>1
    <3> QED
      BY <1>1, <1>5, <1>6, <2>1, <3>1
  <2>2. CASE m > a
    <3>1. m - a \in 1..Len(q) + 1 - a /\ a + (m - a) - 1 = m - 1
      BY <1>1, <2>2
    <3> QED
      BY <1>1, <1>3, <1>6, <2>2, <3>1
  <2> QED
    <3>1. m <= a \/ m > a
      BY <1>1
    <3> QED
      BY <2>1, <2>2, <3>1, Zenon
<1> QED
  BY <1>6, <1>7, <1>8 DEF Enlarged

\* Append makes room at its end.
LEMMA AppendIs ==
    ASSUME NEW S, NEW q \in Seq(S), NEW i \in S
    PROVE  Append(q, i) \in Seq(S) /\ Enlarged(Append(q, i), q, Len(q) + 1, i)
<1>1. Len(q) \in Nat
  OBVIOUS
<1>2. Append(q, i) \in Seq(S) /\ Len(Append(q, i)) = Len(q) + 1
      /\ \A m \in 1..Len(q) + 1 : Append(q, i)[m] = IF m <= Len(q) THEN q[m] ELSE i
  BY <1>1
<1> QED
  BY <1>1, <1>2 DEF Enlarged

\* A call leaves what nodes hold, and every root but i.
Keeps(g, h, i) ==
    /\ \A j \in DOMAIN g : /\ j \in DOMAIN h
                            /\ g[j].type = h[j].type /\ g[j].attrs = h[j].attrs
    /\ \A j \in DOMAIN h \ {i} : h[j].parent = Null => j \in DOMAIN g /\ g[j].parent = Null

\* The links that put it there.
Inserted(g, h, p, q, a, i) ==
    /\ IsHeap(g) /\ DOMAIN g = DOMAIN h
    /\ g[i].parent = p /\ g[i].next = EntryOr0(q, a) /\ g[i].prev = EntryOr0(q, a - 1)
    /\ \A j \in DOMAIN h \ {i} :
          /\ g[j].parent = h[j].parent
          /\ g[j].next = IF j = EntryOr0(q, a - 1) THEN i ELSE h[j].next
          /\ g[j].prev = IF j = EntryOr0(q, a) THEN i ELSE h[j].prev
    /\ \A j \in DOMAIN h :
          /\ g[j].type = h[j].type /\ g[j].attrs = h[j].attrs
          /\ g[j].firstChild = IF j = p /\ a = 1 THEN i ELSE h[j].firstChild
          /\ g[j].lastChild = IF j = p /\ a = Len(q) + 1 THEN i ELSE h[j].lastChild

\* The four links of a new sibling, wherever it goes, leave a forest.
LEMMA InsertedForest ==
    ASSUME NEW h, NEW k, NEW p \in DOMAIN h, NEW i \in DOMAIN h, NEW a \in 1..Len(k[p]) + 1,
           NEW g, NEW r \in Seq(DOMAIN h), Forest(h, k), h[i].parent = Null,
           p \notin {i} \cup Below(h, i), Inserted(g, h, p, k[p], a, i), Enlarged(r, k[p], a, i)
    PROVE  Forest(g, [k EXCEPT ![p] = r]) /\ Keeps(g, h, i)
<1> DEFINE D == DOMAIN h
           q == k[p]
           l == [k EXCEPT ![p] = r]
<1>1. q \in Seq(D) /\ Len(q) \in Nat /\ Row(h, p, q) /\ Null \notin D /\ DOMAIN k = D
      /\ a \in 1..Len(q) + 1
  BY NullIsNoPlace DEF Forest, Rows
<1>2. \A n \in 1..Len(q) : q[n] \in D /\ q[n] # i /\ q[n] # Null /\ h[q[n]].parent = p
  BY <1>1, RowFacts
<1>3. \A n, m \in 1..Len(q) : q[n] = q[m] => n = m
  BY RowFacts
<1>4. DOMAIN l = D /\ l[p] = r /\ \A x \in D \ {p} : l[x] = k[x]
  BY <1>1
<1> HIDE DEF l
<1>5. /\ Len(r) = Len(q) + 1
      /\ \A m \in 1..Len(r) : r[m] = IF m < a THEN q[m] ELSE IF m = a THEN i ELSE q[m - 1]
  BY DEF Enlarged
<1> HIDE DEF q
<1>6. \A m \in Int : EntryOr0(r, m) = IF m < a THEN EntryOr0(q, m)
                                      ELSE IF m = a THEN i ELSE EntryOr0(q, m - 1)
  BY <1>1, <1>5 DEF EntryOr0
<1>7. ASSUME NEW m \in 1..Len(r)
      PROVE  /\ g[r[m]].parent = p
             /\ g[r[m]].next = EntryOr0(r, m + 1)
             /\ g[r[m]].prev = EntryOr0(r, m - 1)
             /\ \A n \in 1..m - 1 : r[n] # r[m]
  <2>1. ASSUME NEW n \in 1..m - 1 PROVE r[n] # r[m]
    <3> DEFINE Old(x) == IF x < a THEN x ELSE x - 1
    <3>1. n \in 1..Len(r) /\ n < m
      BY <1>1, <1>5
    <3>2. \A x \in 1..Len(r) : x # a => Old(x) \in 1..Len(q) /\ r[x] = q[Old(x)]
      BY <1>1, <1>5
    <3>3. r[a] = i
      BY <1>1, <1>5
    <3>4. n # a /\ m # a => Old(n) # Old(m)
      BY <1>1, <1>5, <3>1
    <3> HIDE DEF Old
    <3> QED
      BY <1>2, <1>3, <3>1, <3>2, <3>3, <3>4
  <2>2. CASE m = a
    <3>1. r[m] = i /\ m + 1 > a /\ m - 1 < a
      BY <1>5, <2>2
    <3>2. EntryOr0(r, m + 1) = EntryOr0(q, a) /\ EntryOr0(r, m - 1) = EntryOr0(q, a - 1)
      BY <1>1, <1>6, <2>2
    <3> QED
      BY <2>1, <2>2, <3>1, <3>2 DEF Inserted, q
  <2>3. CASE m < a
    <3>1. m \in 1..Len(q) /\ r[m] = q[m]
      BY <1>1, <1>5, <2>3
    <3>2. /\ h[q[m]].next = EntryOr0(q, m + 1) /\ h[q[m]].prev = EntryOr0(q, m - 1)
          /\ EntryOr0(q, m) = q[m]
      BY <1>1, <3>1 DEF Row, EntryOr0
    <3>3. q[m] = EntryOr0(q, a - 1) <=> m = a - 1
      BY <1>1, <1>2, <1>3, <2>3, <3>1 DEF EntryOr0
    <3>4. q[m] # EntryOr0(q, a)
      BY <1>1, <1>2, <1>3, <2>3, <3>1 DEF EntryOr0
    <3>5. /\ EntryOr0(r, m + 1) = IF m = a - 1 THEN i ELSE EntryOr0(q, m + 1)
          /\ EntryOr0(r, m - 1) = EntryOr0(q, m - 1)
      BY <1>1, <1>6, <2>3
    <3>6. q[m] \in D \ {i} /\ h[q[m]].parent = p
      BY <1>2, <3>1
    <3>7. /\ g[q[m]].parent = p
          /\ g[q[m]].next = IF q[m] = EntryOr0(q, a - 1) THEN i ELSE h[q[m]].next
          /\ g[q[m]].prev = IF q[m] = EntryOr0(q, a) THEN i ELSE h[q[m]].prev
      BY <3>6 DEF Inserted, q
    <3> QED
      BY <2>1, <3>1, <3>2, <3>3, <3>4, <3>5, <3>7
  <2>4. CASE m > a
    <3> DEFINE n == m - 1
    <3>1. n \in 1..Len(q) /\ r[m] = q[n] /\ n >= a
      BY <1>1, <1>5, <2>4
    <3>2. /\ h[q[n]].next = EntryOr0(q, n + 1) /\ h[q[n]].prev = EntryOr0(q, n - 1)
          /\ EntryOr0(q, n) = q[n]
      BY <1>1, <3>1 DEF Row, EntryOr0
    <3>3. q[n] # EntryOr0(q, a - 1)
      BY <1>1, <1>2, <1>3, <3>1 DEF EntryOr0
    <3>4. q[n] = EntryOr0(q, a) <=> n = a
      BY <1>1, <1>2, <1>3, <3>1 DEF EntryOr0
    <3>5. /\ EntryOr0(r, m + 1) = EntryOr0(q, n + 1)
          /\ EntryOr0(r, m - 1) = IF n = a THEN i ELSE EntryOr0(q, n - 1)
      BY <1>1, <1>6, <2>4
    <3>6. q[n] \in D \ {i} /\ h[q[n]].parent = p
      BY <1>2, <3>1
    <3>7. /\ g[q[n]].parent = p
          /\ g[q[n]].next = IF q[n] = EntryOr0(q, a - 1) THEN i ELSE h[q[n]].next
          /\ g[q[n]].prev = IF q[n] = EntryOr0(q, a) THEN i ELSE h[q[n]].prev
      BY <3>6 DEF Inserted, q
    <3> QED
      BY <2>1, <3>1, <3>2, <3>3, <3>4, <3>5, <3>7
  <2> QED
    BY <1>1, <1>5, <2>2, <2>3, <2>4
<1>8. g[p].firstChild = EntryOr0(r, 1) /\ g[p].lastChild = EntryOr0(r, Len(r))
  <2>1. h[p].firstChild = EntryOr0(q, 1) /\ h[p].lastChild = EntryOr0(q, Len(q))
    BY <1>1 DEF Row
  <2>2. /\ g[p].firstChild = IF a = 1 THEN i ELSE h[p].firstChild
        /\ g[p].lastChild = IF a = Len(q) + 1 THEN i ELSE h[p].lastChild
    BY DEF Inserted, q
  <2>3. /\ EntryOr0(r, 1) = IF a = 1 THEN i ELSE EntryOr0(q, 1)
        /\ EntryOr0(r, Len(r)) = IF a = Len(q) + 1 THEN i ELSE EntryOr0(q, Len(q))
    BY <1>1, <1>5, <1>6
  <2> QED
    BY <2>1, <2>2, <2>3
<1>9. Row(g, p, r)
  BY <1>7, <1>8 DEF Row
<1>10. ASSUME NEW j \in D, g[j].parent = p PROVE \E n \in 1..Len(r) : r[n] = j
  <2>1. CASE j = i
    BY <1>1, <1>5, <2>1
  <2>2. CASE j # i
    <3>1. h[j].parent = p
      BY <1>10, <2>2 DEF Inserted
    <3>2. PICK n \in 1..Len(q) : q[n] = j
      BY <1>1, <3>1 DEF Forest, Parents, q
    <3>3. CASE n < a
      <4>1. n \in 1..Len(r) /\ r[n] = j
        BY <1>1, <1>5, <3>2, <3>3
      <4> QED
        BY <4>1
    <3>4. CASE n >= a
      <4>1. n + 1 \in 1..Len(r) /\ r[n + 1] = q[(n + 1) - 1] /\ (n + 1) - 1 = n
        BY <1>1, <1>5, <3>2, <3>4
      <4> QED
        BY <3>2, <4>1
    <3> QED
      BY <1>1, <3>3, <3>4
  <2> QED
    BY <2>1, <2>2
<1>11. ASSUME NEW j \in D, h[j].parent \notin {p, Null}
       PROVE  g[j].next = h[j].next /\ g[j].prev = h[j].prev
  <2>1. j # EntryOr0(q, a - 1) /\ j # EntryOr0(q, a) /\ j # i
    BY <1>1, <1>2, <1>11 DEF EntryOr0
  <2> QED
    BY <2>1 DEF Inserted, q
<1>12. /\ \A x \in D \ {p} : g[x].firstChild = h[x].firstChild /\ g[x].lastChild = h[x].lastChild
       /\ \A j \in D \ {i} : g[j].parent = h[j].parent
       /\ g[i].parent = p /\ DOMAIN g = D /\ IsHeap(g)
  BY DEF Inserted
<1>13. Reworked(h, k, g, l, p, i, {})
  BY <1>1, <1>4, <1>9, <1>10, <1>11, <1>12 DEF Reworked
<1>14. Forest(g, l)
  BY <1>13, ReworkedForest
<1>15. Keeps(g, h, i)
  BY DEF Keeps, Inserted
<1> QED
  BY <1>14, <1>15 DEF l

\* The calls that link a node leave its links so.
LEMMA LinkForest ==
    ASSUME NEW h, NEW k, NEW p \in DOMAIN h, NEW i \in DOMAIN h, Forest(h, k),
           h[i].parent = Null, p \notin {i} \cup Below(h, i)
    PROVE  /\ Forest(Link(h, p, i), [k EXCEPT ![p] = Append(@, i)])
           /\ Keeps(Link(h, p, i), h, i)
<1> DEFINE q == k[p]
           a == Len(q) + 1
           last == h[p].lastChild
           g1 == Set(h, i, "parent", p)
           g2 == Set(g1, i, "prev", last)
           g3 == Set(g2, i, "next", Null)
           g4 == IF last # Null THEN Set(g3, last, "next", i) ELSE Set(g3, p, "firstChild", i)
           g == Set(g4, p, "lastChild", i)
<1>1. q \in Seq(DOMAIN h) /\ Len(q) \in Nat /\ Row(h, p, q) /\ IsHeap(h) /\ Null \notin DOMAIN h
  BY NullIsNoPlace DEF Forest, Rows
<1>2. /\ last = EntryOr0(q, a - 1) /\ Null = EntryOr0(q, a)
      /\ last = Null <=> a = 1
      /\ last # i /\ last \in DOMAIN h \cup {Null}
  <2>1. last = EntryOr0(q, Len(q)) /\ a - 1 = Len(q)
    BY <1>1 DEF Row
  <2>2. \A n \in 1..Len(q) : q[n] \in DOMAIN h /\ h[q[n]].parent = p
    BY RowFacts
  <2>3. p # Null
    BY <1>1
  <2> HIDE DEF q, last
  <2> QED
    BY <1>1, <2>1, <2>2, <2>3 DEF EntryOr0
<1>3. Fields = {"type", "value", "attrs", "parent", "firstChild", "lastChild", "prev", "next"}
  BY DEF Fields
<1>4. Writes(g1, h, i, "parent", p)
  BY <1>1, <1>3, SetFacts
<1>5. Writes(g2, g1, i, "prev", last)
  BY <1>3, <1>4, SetFacts DEF Writes
<1>6. Writes(g3, g2, i, "next", Null)
  BY <1>3, <1>4, <1>5, SetFacts DEF Writes
<1> HIDE DEF g1, g2, g3, last
<1>7. IF last # Null THEN Writes(g4, g3, last, "next", i) ELSE Writes(g4, g3, p, "firstChild", i)
  <2>1. IsHeap(g3) /\ last \in DOMAIN g3 \cup {Null} /\ p \in DOMAIN g3
    BY <1>2, <1>4, <1>5, <1>6 DEF Writes
  <2> QED
    BY <1>3, <2>1, SetFacts
<1> HIDE DEF g4
<1>8. Writes(g, g4, p, "lastChild", i)
  <2>1. IsHeap(g4) /\ p \in DOMAIN g4
    BY <1>4, <1>5, <1>6, <1>7 DEF Writes
  <2> QED
    BY <1>3, <2>1, SetFacts
<1>9. g = Link(h, p, i)
  BY DEF Link, g4, g3, g2, g1, last
<1> HIDE DEF g, q
<1>10. Inserted(g, h, p, q, a, i)
  BY <1>1, <1>2, <1>3, <1>4, <1>5, <1>6, <1>7, <1>8 DEF Inserted, Writes
<1>11. Append(q, i) \in Seq(DOMAIN h) /\ Enlarged(Append(q, i), q, a, i)
  BY <1>1, AppendIs
<1>12. a \in 1..Len(k[p]) + 1
  BY <1>1 DEF q
<1> HIDE DEF a
<1>13. Forest(g, [k EXCEPT ![p] = Append(q, i)]) /\ Keeps(g, h, i)
  BY <1>10, <1>11, <1>12, InsertedForest DEF q
<1> QED
  BY <1>9, <1>13 DEF q

\* InsertBeforeChild's links.
LEMMA InsertedBeforeForest ==
    ASSUME NEW h, NEW k, NEW p \in DOMAIN h, NEW i \in DOMAIN h, NEW n \in 1..Len(k[p]),
           Forest(h, k), h[i].parent = Null, p \notin {i} \cup Below(h, i)
    PROVE  /\ Forest(InsertedBefore(h, p, k[p][n], i), [k EXCEPT ![p] = InsertAt(@, n, i)])
           /\ Keeps(InsertedBefore(h, p, k[p][n], i), h, i)
<1> DEFINE q == k[p]
           c == q[n]
           prev == h[c].prev
           g1 == Set(h, i, "parent", p)
           g2 == Set(g1, i, "next", c)
           g3 == Set(g2, i, "prev", prev)
           g4 == IF prev # Null THEN Set(g3, prev, "next", i) ELSE Set(g3, p, "firstChild", i)
           g == Set(g4, c, "prev", i)
<1>1. /\ q \in Seq(DOMAIN h) /\ Len(q) \in Nat /\ Row(h, p, q) /\ IsHeap(h) /\ Null \notin DOMAIN h
      /\ n \in 1..Len(q)
  BY NullIsNoPlace DEF Forest, Rows
<1>2. /\ c \in DOMAIN h /\ c # i /\ c = EntryOr0(q, n)
      /\ prev = EntryOr0(q, n - 1) /\ (prev = Null <=> n = 1)
      /\ prev # i /\ prev \in DOMAIN h \cup {Null}
  <2>1. c = EntryOr0(q, n) /\ prev = EntryOr0(q, n - 1)
    BY <1>1 DEF Row, EntryOr0
  <2>2. \A m \in 1..Len(q) : q[m] \in DOMAIN h /\ h[q[m]].parent = p
    BY RowFacts
  <2>3. p # Null
    BY <1>1
  <2> HIDE DEF q, prev
  <2> QED
    BY <1>1, <2>1, <2>2, <2>3 DEF EntryOr0
<1>3. Fields = {"type", "value", "attrs", "parent", "firstChild", "lastChild", "prev", "next"}
  BY DEF Fields
<1>4. Writes(g1, h, i, "parent", p)
  BY <1>1, <1>3, SetFacts
<1> HIDE DEF c, prev
<1>5. Writes(g2, g1, i, "next", c)
  BY <1>3, <1>4, SetFacts DEF Writes
<1>6. Writes(g3, g2, i, "prev", prev)
  BY <1>3, <1>4, <1>5, SetFacts DEF Writes
<1> HIDE DEF g1, g2, g3
<1>7. IF prev # Null THEN Writes(g4, g3, prev, "next", i) ELSE Writes(g4, g3, p, "firstChild", i)
  <2>1. IsHeap(g3) /\ prev \in DOMAIN g3 \cup {Null} /\ p \in DOMAIN g3
    BY <1>2, <1>4, <1>5, <1>6 DEF Writes
  <2> QED
    BY <1>3, <2>1, SetFacts
<1> HIDE DEF g4
<1>8. Writes(g, g4, c, "prev", i)
  <2>1. IsHeap(g4) /\ c \in DOMAIN g4
    BY <1>2, <1>4, <1>5, <1>6, <1>7 DEF Writes
  <2> QED
    BY <1>3, <2>1, SetFacts
<1>9. g = InsertedBefore(h, p, c, i)
  BY DEF InsertedBefore, g4, g3, g2, g1, prev
<1> HIDE DEF g, q
<1>10. Inserted(g, h, p, q, n, i)
  <2>1. n # Len(q) + 1
    BY <1>1
  <2>2. /\ IsHeap(g) /\ DOMAIN g = DOMAIN h /\ DOMAIN g4 = DOMAIN h /\ DOMAIN g3 = DOMAIN h
        /\ DOMAIN g2 = DOMAIN h /\ DOMAIN g1 = DOMAIN h
    BY <1>4, <1>5, <1>6, <1>7, <1>8 DEF Writes
  <2>3. \A j \in DOMAIN h :
           /\ g3[j].parent = IF j = i THEN p ELSE h[j].parent
           /\ g3[j].next = IF j = i THEN c ELSE h[j].next
           /\ g3[j].prev = IF j = i THEN prev ELSE h[j].prev
           /\ g3[j].firstChild = h[j].firstChild /\ g3[j].lastChild = h[j].lastChild
           /\ g3[j].type = h[j].type /\ g3[j].attrs = h[j].attrs
    BY <1>3, <1>4, <1>5, <1>6, <2>2 DEF Writes
  <2>4. \A j \in DOMAIN h :
           /\ g4[j].parent = g3[j].parent /\ g4[j].prev = g3[j].prev
           /\ g4[j].next = IF j = prev THEN i ELSE g3[j].next
           /\ g4[j].firstChild = IF prev = Null /\ j = p THEN i ELSE g3[j].firstChild
           /\ g4[j].lastChild = g3[j].lastChild
           /\ g4[j].type = g3[j].type /\ g4[j].attrs = g3[j].attrs
    BY <1>1, <1>3, <1>7, <2>2 DEF Writes
  <2>5. \A j \in DOMAIN h :
           /\ g[j].parent = g4[j].parent /\ g[j].next = g4[j].next
           /\ g[j].prev = IF j = c THEN i ELSE g4[j].prev
           /\ g[j].firstChild = g4[j].firstChild /\ g[j].lastChild = g4[j].lastChild
           /\ g[j].type = g4[j].type /\ g[j].attrs = g4[j].attrs
    BY <1>3, <1>8, <2>2 DEF Writes
  <2> QED
    BY <1>1, <1>2, <2>1, <2>2, <2>3, <2>4, <2>5 DEF Inserted
<1>11. n \in 1..Len(q) + 1
  BY <1>1
<1>12. InsertAt(q, n, i) \in Seq(DOMAIN h) /\ Enlarged(InsertAt(q, n, i), q, n, i)
  BY <1>1, <1>11, InsertAtIs
<1>13. Forest(g, [k EXCEPT ![p] = InsertAt(q, n, i)]) /\ Keeps(g, h, i)
  BY <1>10, <1>11, <1>12, InsertedForest DEF q
<1> QED
  BY <1>9, <1>13 DEF q, c

\* InsertAfterChild's links.
LEMMA InsertedAfterForest ==
    ASSUME NEW h, NEW k, NEW p \in DOMAIN h, NEW i \in DOMAIN h, NEW n \in 1..Len(k[p]),
           Forest(h, k), h[i].parent = Null, p \notin {i} \cup Below(h, i)
    PROVE  /\ Forest(InsertedAfter(h, p, k[p][n], i), [k EXCEPT ![p] = InsertAt(@, n + 1, i)])
           /\ Keeps(InsertedAfter(h, p, k[p][n], i), h, i)
<1> DEFINE q == k[p]
           c == q[n]
           next == h[c].next
           a == n + 1
           g1 == Set(h, i, "parent", p)
           g2 == Set(g1, i, "prev", c)
           g3 == Set(g2, i, "next", next)
           g4 == IF next # Null THEN Set(g3, next, "prev", i) ELSE Set(g3, p, "lastChild", i)
           g == Set(g4, c, "next", i)
<1>1. /\ q \in Seq(DOMAIN h) /\ Len(q) \in Nat /\ Row(h, p, q) /\ IsHeap(h) /\ Null \notin DOMAIN h
      /\ n \in 1..Len(q)
  BY NullIsNoPlace DEF Forest, Rows
<1>2. /\ c \in DOMAIN h /\ c # i /\ c = EntryOr0(q, a - 1)
      /\ next = EntryOr0(q, a) /\ (next = Null <=> a = Len(q) + 1)
      /\ next # i /\ next \in DOMAIN h \cup {Null}
  <2>1. c = EntryOr0(q, n) /\ next = EntryOr0(q, n + 1) /\ a - 1 = n
    BY <1>1 DEF Row, EntryOr0
  <2>2. \A m \in 1..Len(q) : q[m] \in DOMAIN h /\ h[q[m]].parent = p
    BY RowFacts
  <2>3. p # Null
    BY <1>1
  <2> HIDE DEF q, next
  <2> QED
    BY <1>1, <2>1, <2>2, <2>3 DEF EntryOr0
<1>3. Fields = {"type", "value", "attrs", "parent", "firstChild", "lastChild", "prev", "next"}
  BY DEF Fields
<1>4. Writes(g1, h, i, "parent", p)
  BY <1>1, <1>3, SetFacts
<1> HIDE DEF c, next
<1>5. Writes(g2, g1, i, "prev", c)
  BY <1>3, <1>4, SetFacts DEF Writes
<1>6. Writes(g3, g2, i, "next", next)
  BY <1>3, <1>4, <1>5, SetFacts DEF Writes
<1> HIDE DEF g1, g2, g3
<1>7. IF next # Null THEN Writes(g4, g3, next, "prev", i) ELSE Writes(g4, g3, p, "lastChild", i)
  <2>1. IsHeap(g3) /\ next \in DOMAIN g3 \cup {Null} /\ p \in DOMAIN g3
    BY <1>2, <1>4, <1>5, <1>6 DEF Writes
  <2> QED
    BY <1>3, <2>1, SetFacts
<1> HIDE DEF g4
<1>8. Writes(g, g4, c, "next", i)
  <2>1. IsHeap(g4) /\ c \in DOMAIN g4
    BY <1>2, <1>4, <1>5, <1>6, <1>7 DEF Writes
  <2> QED
    BY <1>3, <2>1, SetFacts
<1>9. g = InsertedAfter(h, p, c, i)
  BY DEF InsertedAfter, g4, g3, g2, g1, next
<1> HIDE DEF g, q
<1>10. Inserted(g, h, p, q, a, i)
  <2>1. a # 1
    BY <1>1
  <2> HIDE DEF a
  <2>2. /\ IsHeap(g) /\ DOMAIN g = DOMAIN h /\ DOMAIN g4 = DOMAIN h /\ DOMAIN g3 = DOMAIN h
        /\ DOMAIN g2 = DOMAIN h /\ DOMAIN g1 = DOMAIN h
    BY <1>4, <1>5, <1>6, <1>7, <1>8 DEF Writes
  <2>3. \A j \in DOMAIN h :
           /\ g3[j].parent = IF j = i THEN p ELSE h[j].parent
           /\ g3[j].prev = IF j = i THEN c ELSE h[j].prev
           /\ g3[j].next = IF j = i THEN next ELSE h[j].next
           /\ g3[j].firstChild = h[j].firstChild /\ g3[j].lastChild = h[j].lastChild
           /\ g3[j].type = h[j].type /\ g3[j].attrs = h[j].attrs
    BY <1>3, <1>4, <1>5, <1>6, <2>2 DEF Writes
  <2>4. \A j \in DOMAIN h :
           /\ g4[j].parent = g3[j].parent /\ g4[j].next = g3[j].next
           /\ g4[j].prev = IF j = next THEN i ELSE g3[j].prev
           /\ g4[j].lastChild = IF next = Null /\ j = p THEN i ELSE g3[j].lastChild
           /\ g4[j].firstChild = g3[j].firstChild
           /\ g4[j].type = g3[j].type /\ g4[j].attrs = g3[j].attrs
    BY <1>1, <1>3, <1>7, <2>2 DEF Writes
  <2>5. \A j \in DOMAIN h :
           /\ g[j].parent = g4[j].parent /\ g[j].prev = g4[j].prev
           /\ g[j].next = IF j = c THEN i ELSE g4[j].next
           /\ g[j].firstChild = g4[j].firstChild /\ g[j].lastChild = g4[j].lastChild
           /\ g[j].type = g4[j].type /\ g[j].attrs = g4[j].attrs
    BY <1>3, <1>8, <2>2 DEF Writes
  <2> QED
    BY <1>1, <1>2, <2>1, <2>2, <2>3, <2>4, <2>5 DEF Inserted
<1>11. a \in 1..Len(q) + 1
  BY <1>1
<1> HIDE DEF a
<1>12. InsertAt(q, a, i) \in Seq(DOMAIN h) /\ Enlarged(InsertAt(q, a, i), q, a, i)
  BY <1>1, <1>11, InsertAtIs
<1>13. Forest(g, [k EXCEPT ![p] = InsertAt(q, a, i)]) /\ Keeps(g, h, i)
  BY <1>10, <1>11, <1>12, InsertedForest DEF q
<1> QED
  BY <1>9, <1>13 DEF q, c, a

-----------------------------------------------------------------------------
\* What goes with a node that is deleted.
LEMMA GoneFacts ==
    ASSUME NEW h, NEW k, NEW c \in DOMAIN h, Forest(h, k)
    PROVE  /\ {c} \cup Below(h, c) \in SUBSET DOMAIN h
           /\ h[c].parent \notin {c} \cup Below(h, c)
           /\ \A j \in DOMAIN h : h[j].parent \in {c} \cup Below(h, c) => j \in {c} \cup Below(h, c)
           /\ \A j \in {c} \cup Below(h, c) :
                  h[j].parent \in {c} \cup Below(h, c) \cup {h[c].parent}
           /\ \A j \in DOMAIN h :
                  h[j].parent \in {Null, h[c].parent} /\ j # c => j \notin Below(h, c)
<1> DEFINE B == Below(h, c)
<1>1. B \in SUBSET DOMAIN h /\ \A j \in DOMAIN h : j \in B <=> h[j].parent \in {c} \cup B
  BY BelowIs DEF IsBelow
<1>2. h[c].parent \notin {c} \cup B /\ Null \notin DOMAIN h
  BY NotBelowItself, NullIsNoPlace DEF Forest
<1> HIDE DEF B
<1>3. /\ {c} \cup B \in SUBSET DOMAIN h
      /\ h[c].parent \notin {c} \cup B
      /\ \A j \in DOMAIN h : h[j].parent \in {c} \cup B => j \in {c} \cup B
      /\ \A j \in {c} \cup B : h[j].parent \in {c} \cup B \cup {h[c].parent}
      /\ \A j \in DOMAIN h : h[j].parent \in {Null, h[c].parent} /\ j # c => j \notin B
  BY <1>1, <1>2
<1> QED
  BY <1>3 DEF B

\* Deleting leaves the other nodes as they were.
LEMMA WithoutFacts ==
    ASSUME NEW h, NEW gone, IsHeap(h)
    PROVE  /\ IsHeap(Without(h, gone)) /\ DOMAIN Without(h, gone) = DOMAIN h \ gone
           /\ \A j \in DOMAIN h \ gone : Without(h, gone)[j] = h[j]
  BY DEF Without, IsHeap

\* Deleting a root and what is below it leaves a forest.
LEMMA DeleteForest ==
    ASSUME NEW h, NEW k, NEW c \in DOMAIN h, Forest(h, k), h[c].parent = Null
    PROVE  /\ Forest(Delete(h, c), Without(k, {c} \cup Below(h, c)))
           /\ Keeps(Delete(h, c), h, c)
<1> DEFINE gone == {c} \cup Below(h, c)
           g == Without(h, gone)
           l == Without(k, gone)
<1>1. /\ gone \in SUBSET DOMAIN h
      /\ \A j \in DOMAIN h : h[j].parent \in gone => j \in gone
      /\ \A j \in gone : h[j].parent \in gone \cup {Null}
      /\ \A j \in DOMAIN h \ {c} : h[j].parent = Null => j \notin gone
  BY GoneFacts
<1> HIDE DEF gone
<1>2. /\ IsHeap(g) /\ DOMAIN g = DOMAIN h \ gone
      /\ \A j \in DOMAIN h \ gone : g[j] = h[j]
  BY WithoutFacts DEF Forest
<1>3. DOMAIN l = DOMAIN g /\ \A j \in DOMAIN h \ gone : l[j] = k[j]
  BY <1>2 DEF Without, Forest, Rows
<1> HIDE DEF g, l
<1>4. Null \notin DOMAIN h
  BY NullIsNoPlace DEF Forest
<1>5. Reworked(h, k, g, l, Null, Null, gone)
  BY <1>1, <1>2, <1>3, <1>4 DEF Reworked
<1>6. Forest(g, l)
  BY <1>5, ReworkedForest
<1>7. Keeps(g, h, c)
  BY <1>1, <1>2 DEF Keeps
<1> QED
  BY <1>6, <1>7 DEF g, l, gone, Delete

\* So does Clear, which keeps the node, and takes no root.
LEMMA ClearForest ==
    ASSUME NEW h, NEW k, NEW p \in DOMAIN h, Forest(h, k)
    PROVE  /\ Forest(ClearNode(h, p), [Without(k, Below(h, p)) EXCEPT ![p] = <<>>])
           /\ DOMAIN ClearNode(h, p) = DOMAIN h \ Below(h, p)
           /\ p \in DOMAIN ClearNode(h, p)
           /\ \A j \in DOMAIN ClearNode(h, p) : ClearNode(h, p)[j].parent = h[j].parent
           /\ Keeps(ClearNode(h, p), h, Null)
<1> DEFINE gone == Below(h, p)
           left == Without(h, gone)
           g1 == Set(left, p, "firstChild", Null)
           g == Set(g1, p, "lastChild", Null)
           l1 == Without(k, gone)
           l == [l1 EXCEPT ![p] = <<>>]
<1>1. /\ gone \in SUBSET DOMAIN h /\ p \notin gone
      /\ \A j \in DOMAIN h : j \in gone <=> h[j].parent \in gone \cup {p}
  BY BelowIs, NotBelowItself DEF IsBelow
<1> HIDE DEF gone
<1>2. /\ IsHeap(left) /\ DOMAIN left = DOMAIN h \ gone
      /\ \A j \in DOMAIN h \ gone : left[j] = h[j]
  BY WithoutFacts DEF Forest
<1>3. DOMAIN l1 = DOMAIN left /\ \A j \in DOMAIN h \ gone : l1[j] = k[j]
  BY <1>2 DEF Without, Forest, Rows
<1> HIDE DEF left, l1
<1>4. Fields = {"type", "value", "attrs", "parent", "firstChild", "lastChild", "prev", "next"}
  BY DEF Fields
<1>5. Writes(g1, left, p, "firstChild", Null)
  BY <1>1, <1>2, <1>4, SetFacts
<1> HIDE DEF g1
<1>6. Writes(g, g1, p, "lastChild", Null)
  <2>1. IsHeap(g1) /\ p \in DOMAIN g1
    BY <1>1, <1>2, <1>5 DEF Writes
  <2> QED
    BY <1>4, <2>1, SetFacts
<1> HIDE DEF g
<1>7. /\ IsHeap(g) /\ DOMAIN g = DOMAIN h \ gone /\ p \in DOMAIN g
      /\ \A j \in DOMAIN g : /\ g[j].parent = h[j].parent
                             /\ g[j].type = h[j].type /\ g[j].attrs = h[j].attrs
                             /\ g[j].next = h[j].next /\ g[j].prev = h[j].prev
                             /\ g[j].firstChild = IF j = p THEN Null ELSE h[j].firstChild
                             /\ g[j].lastChild = IF j = p THEN Null ELSE h[j].lastChild
  BY <1>1, <1>2, <1>4, <1>5, <1>6 DEF Writes
<1>8. DOMAIN l = DOMAIN g /\ l[p] = <<>> /\ \A x \in DOMAIN g \ {p} : l[x] = k[x]
  BY <1>2, <1>3, <1>7
<1> HIDE DEF l
<1>9. Null \notin DOMAIN h
  BY NullIsNoPlace DEF Forest
<1>10. Row(g, p, l[p]) /\ l[p] \in Seq(DOMAIN g)
  BY <1>7, <1>8 DEF Row, EntryOr0
<1>11. \A j \in DOMAIN g : g[j].parent # p
  BY <1>1, <1>7
<1>12. Reworked(h, k, g, l, p, Null, gone)
  BY <1>1, <1>7, <1>8, <1>9, <1>10, <1>11 DEF Reworked
<1>13. Forest(g, l)
  BY <1>12, ReworkedForest
<1>14. g = ClearNode(h, p)
  BY DEF g, g1, left, gone, ClearNode
<1>15. Keeps(g, h, Null)
  <2>1. \A j \in DOMAIN h : h[j].parent = Null => j \notin gone
    BY <1>1, <1>9
  <2> QED
    BY <1>7, <2>1 DEF Keeps
<1> QED
  BY <1>7, <1>13, <1>14, <1>15 DEF l, l1, gone

\* The links around a child lead to others.
Bypassed(g, h, p, c, forward, backward) ==
    /\ IsHeap(g) /\ DOMAIN g = DOMAIN h
    /\ \A j \in DOMAIN h :
          /\ g[j].parent = h[j].parent /\ g[j].type = h[j].type /\ g[j].attrs = h[j].attrs
          /\ g[j].next = IF j = h[c].prev THEN forward ELSE h[j].next
          /\ g[j].prev = IF j = h[c].next THEN backward ELSE h[j].prev
          /\ g[j].firstChild = IF j = p /\ h[c].prev = Null THEN forward ELSE h[j].firstChild
          /\ g[j].lastChild = IF j = p /\ h[c].next = Null THEN backward ELSE h[j].lastChild

\* Bypass writes the two links around a child.
LEMMA BypassFacts ==
    ASSUME NEW h, NEW p \in DOMAIN h, NEW c \in DOMAIN h, NEW forward, NEW backward, IsHeap(h),
           h[c].next \in DOMAIN h \cup {Null}, h[c].prev \in DOMAIN h \cup {Null}
    PROVE  Bypassed(Bypass(h, p, c, forward, backward), h, p, c, forward, backward)
<1> DEFINE next == h[c].next
           prev == h[c].prev
           back == IF next # Null THEN Set(h, next, "prev", backward)
                   ELSE Set(h, p, "lastChild", backward)
           g == IF prev # Null THEN Set(back, prev, "next", forward)
                ELSE Set(back, p, "firstChild", forward)
<1>1. Fields = {"type", "value", "attrs", "parent", "firstChild", "lastChild", "prev", "next"}
  BY DEF Fields
<1>2. g = Bypass(h, p, c, forward, backward) /\ Null \notin DOMAIN h
  BY NullIsNoPlace DEF Bypass
<1>3. next \in DOMAIN h \cup {Null} /\ prev \in DOMAIN h \cup {Null}
  OBVIOUS
<1> HIDE DEF next, prev
<1>4. IF next # Null THEN Writes(back, h, next, "prev", backward)
      ELSE Writes(back, h, p, "lastChild", backward)
  BY <1>1, <1>3, SetFacts
<1> HIDE DEF back
<1>5. IF prev # Null THEN Writes(g, back, prev, "next", forward)
      ELSE Writes(g, back, p, "firstChild", forward)
  <2>1. IsHeap(back) /\ DOMAIN back = DOMAIN h
    BY <1>4 DEF Writes
  <2> QED
    BY <1>1, <1>3, <2>1, SetFacts
<1> HIDE DEF g
<1>6. IsHeap(g) /\ DOMAIN g = DOMAIN h /\ DOMAIN back = DOMAIN h
  BY <1>4, <1>5 DEF Writes
<1>7. \A j \in DOMAIN h :
          /\ back[j].parent = h[j].parent /\ back[j].type = h[j].type /\ back[j].attrs = h[j].attrs
          /\ back[j].next = h[j].next
          /\ back[j].prev = IF j = next THEN backward ELSE h[j].prev
          /\ back[j].firstChild = h[j].firstChild
          /\ back[j].lastChild = IF j = p /\ next = Null THEN backward ELSE h[j].lastChild
  BY <1>1, <1>2, <1>4 DEF Writes
<1>8. \A j \in DOMAIN h :
          /\ g[j].parent = back[j].parent /\ g[j].type = back[j].type /\ g[j].attrs = back[j].attrs
          /\ g[j].next = IF j = prev THEN forward ELSE back[j].next
          /\ g[j].prev = back[j].prev
          /\ g[j].firstChild = IF j = p /\ prev = Null THEN forward ELSE back[j].firstChild
          /\ g[j].lastChild = back[j].lastChild
  BY <1>1, <1>2, <1>5, <1>6 DEF Writes
<1>9. Bypassed(g, h, p, c, forward, backward)
  BY <1>6, <1>7, <1>8 DEF Bypassed, next, prev
<1> QED
  BY <1>2, <1>9

\* The row of a node whose child at n is taken out, or gives its place away.
LEMMA RemoveAtIs ==
    ASSUME NEW S, NEW q \in Seq(S), NEW n \in 1..Len(q)
    PROVE  /\ RemoveAt(q, n) \in Seq(S) /\ Len(RemoveAt(q, n)) = Len(q) - 1
           /\ \A m \in 1..Len(q) - 1 : RemoveAt(q, n)[m] = IF m < n THEN q[m] ELSE q[m + 1]
<1> DEFINE before == SubSeq(q, 1, n - 1)
           after == SubSeq(q, n + 1, Len(q))
<1>1. Len(q) \in Nat /\ \A m \in 1..Len(q) : q[m] \in S
  OBVIOUS
<1>2. before \in Seq(S) /\ Len(before) = n - 1 /\ \A m \in 1..n - 1 : before[m] = q[m]
  BY <1>1, Beginnings
<1>3. after \in Seq(S) /\ Len(after) = Len(q) - n
      /\ \A m \in 1..Len(q) - n : after[m] = q[n + m]
  <2>1. n + 1 \in Int /\ Len(q) \in Int /\ \A m \in n + 1..Len(q) : q[m] \in S
    BY <1>1
  <2>2. /\ after \in Seq(S)
        /\ Len(after) = IF n + 1 <= Len(q) THEN Len(q) - (n + 1) + 1 ELSE 0
        /\ \A m \in 1..Len(q) - (n + 1) + 1 : after[m] = q[n + 1 + m - 1]
    BY <2>1, SubSeqProperties
  <2> HIDE DEF after
  <2> QED
    BY <1>1, <2>2
<1> HIDE DEF before, after
<1>4. /\ before \o after \in Seq(S) /\ Len(before \o after) = Len(before) + Len(after)
      /\ \A m \in 1..Len(before) + Len(after) :
            (before \o after)[m] = IF m <= Len(before) THEN before[m] ELSE after[m - Len(before)]
  BY <1>2, <1>3, ConcatProperties, Zenon
<1> DEFINE r == before \o after
<1>5. RemoveAt(q, n) = r
  BY DEF RemoveAt, before, after
<1>6. /\ r \in Seq(S) /\ Len(r) = Len(before) + Len(after)
      /\ \A m \in 1..Len(before) + Len(after) :
            r[m] = IF m <= Len(before) THEN before[m] ELSE after[m - Len(before)]
  BY <1>4
<1> HIDE DEF r
<1>7. Len(r) = Len(q) - 1
  BY <1>1, <1>2, <1>3, <1>6
<1>8. ASSUME NEW m \in 1..Len(q) - 1 PROVE r[m] = IF m < n THEN q[m] ELSE q[m + 1]
  <2>1. CASE m < n
    BY <1>1, <1>2, <1>3, <1>6, <2>1
  <2>2. CASE m >= n
    <3>1. m - (n - 1) \in 1..Len(q) - n /\ n + (m - (n - 1)) = m + 1 /\ ~(m <= n - 1) /\ ~(m < n)
      BY <1>1, <2>2
    <3>2. r[m] = after[m - (n - 1)]
      <4>1. m \in 1..Len(before) + Len(after)
        BY <1>1, <1>2, <1>3
      <4>2. r[m] = after[m - Len(before)]
        BY <1>2, <1>6, <3>1, <4>1
      <4> QED
        BY <1>2, <4>2
    <3>3. after[m - (n - 1)] = q[m + 1]
      BY <1>3, <3>1
    <3> QED
      BY <3>1, <3>2, <3>3
  <2> QED
    BY <1>1, <2>1, <2>2
<1> QED
  BY <1>5, <1>6, <1>7, <1>8

\* A child, its siblings and its parent: none of them is below it.
LEMMA ChildFacts ==
    ASSUME NEW h, NEW k, NEW p \in DOMAIN h, NEW n \in 1..Len(k[p]), Forest(h, k)
    PROVE  LET c == k[p][n]
           IN  /\ c \in DOMAIN h /\ h[c].parent = p /\ c # p /\ p \notin Below(h, c)
               /\ h[c].next = EntryOr0(k[p], n + 1) /\ h[c].prev = EntryOr0(k[p], n - 1)
               /\ h[c].next \in DOMAIN h \cup {Null} /\ h[c].prev \in DOMAIN h \cup {Null}
               /\ h[c].prev \notin {c} \cup Below(h, c) /\ h[c].next \notin {c} \cup Below(h, c)
<1> DEFINE c == k[p][n]
           q == k[p]
<1>1. /\ q \in Seq(DOMAIN h) /\ Len(q) \in Nat /\ Row(h, p, q) /\ Null \notin DOMAIN h
      /\ n \in 1..Len(q)
  BY NullIsNoPlace DEF Forest, Rows
<1>2. \A m \in 1..Len(q) : q[m] \in DOMAIN h /\ h[q[m]].parent = p
  BY RowFacts
<1>3. c \in DOMAIN h /\ h[c].parent = p
  BY <1>1, <1>2
<1>4. h[c].next = EntryOr0(q, n + 1) /\ h[c].prev = EntryOr0(q, n - 1)
  BY <1>1 DEF Row
<1>5. /\ Below(h, c) \in SUBSET DOMAIN h /\ p \notin {c} \cup Below(h, c)
      /\ \A j \in DOMAIN h : h[j].parent = p /\ j # c => j \notin Below(h, c)
  <2> HIDE DEF c
  <2> QED
    BY <1>3, GoneFacts
<1>6. \A m, l \in 1..Len(q) : q[m] = q[l] => m = l
  BY RowFacts
<1> HIDE DEF q
<1>7. ASSUME NEW x, NEW m \in {n - 1, n + 1}, x = EntryOr0(q, m)
      PROVE  x \in DOMAIN h \cup {Null} /\ x \notin {c} \cup Below(h, c)
  <2>1. CASE m \in 1..Len(q)
    <3>1. x = q[m] /\ q[m] \in DOMAIN h /\ h[q[m]].parent = p
      BY <1>2, <1>7, <2>1 DEF EntryOr0
    <3>2. q[m] # c
      BY <1>1, <1>6, <2>1 DEF q
    <3> QED
      BY <1>5, <3>1, <3>2
  <2>2. CASE m \notin 1..Len(q)
    <3>1. x = Null
      BY <1>7, <2>2 DEF EntryOr0
    <3> QED
      BY <1>1, <1>3, <1>5, <3>1
  <2> QED
    BY <2>1, <2>2
<1> HIDE DEF c
<1>8. /\ h[c].next \in DOMAIN h \cup {Null} /\ h[c].prev \in DOMAIN h \cup {Null}
      /\ h[c].prev \notin {c} \cup Below(h, c) /\ h[c].next \notin {c} \cup Below(h, c)
  BY <1>4, <1>7
<1> QED
  BY <1>3, <1>4, <1>5, <1>8 DEF c, q

\* RemoveChild's links.
LEMMA UnlinkForest ==
    ASSUME NEW h, NEW k, NEW p \in DOMAIN h, NEW n \in 1..Len(k[p]), Forest(h, k)
    PROVE  /\ Forest(Unlink(h, p, k[p][n]),
                     Without([k EXCEPT ![p] = RemoveAt(@, n)], {k[p][n]} \cup Below(h, k[p][n])))
           /\ Keeps(Unlink(h, p, k[p][n]), h, Null)
<1> DEFINE D == DOMAIN h
           q == k[p]
           c == q[n]
           B == Below(h, c)
           gone == {c} \cup B
           b == Bypass(h, p, c, h[c].next, h[c].prev)
           g == Without(b, gone)
           r == RemoveAt(q, n)
           l == Without([k EXCEPT ![p] = r], gone)
<1>1. /\ q \in Seq(D) /\ Len(q) \in Nat /\ Row(h, p, q) /\ Null \notin D /\ DOMAIN k = D
      /\ n \in 1..Len(q) /\ IsHeap(h)
  BY NullIsNoPlace DEF Forest, Rows
<1>2. /\ c \in D /\ h[c].parent = p /\ c # p /\ p \notin B
      /\ h[c].next = EntryOr0(q, n + 1) /\ h[c].prev = EntryOr0(q, n - 1)
      /\ h[c].next \in D \cup {Null} /\ h[c].prev \in D \cup {Null}
      /\ h[c].prev \notin gone /\ h[c].next \notin gone
  BY ChildFacts
<1>3. /\ gone \in SUBSET D /\ p \notin gone
      /\ \A j \in D : h[j].parent \in gone => j \in gone
      /\ \A j \in gone : h[j].parent \in gone \cup {p}
      /\ \A j \in D : h[j].parent \in {Null, p} /\ j # c => j \notin gone
  BY <1>2, GoneFacts
<1>4. \A m \in 1..Len(q) : q[m] \in D /\ h[q[m]].parent = p
  BY RowFacts
<1>5. \A m, x \in 1..Len(q) : q[m] = q[x] => m = x
  BY RowFacts
<1>6. /\ r \in Seq(D) /\ Len(r) = Len(q) - 1
      /\ \A m \in 1..Len(q) - 1 : r[m] = IF m < n THEN q[m] ELSE q[m + 1]
  BY <1>1, RemoveAtIs
<1>7. Bypassed(b, h, p, c, h[c].next, h[c].prev)
  BY <1>1, <1>2, BypassFacts
<1> HIDE DEF b
<1>8. Below(b, c) = B
  <2>1. DOMAIN b = D /\ b[c].firstChild = h[c].firstChild
    BY <1>2, <1>7 DEF Bypassed
  <2>2. ASSUME NEW j \in B PROVE b[j].firstChild = h[j].firstChild /\ b[j].next = h[j].next
    BY <1>2, <1>3, <1>7, <2>2 DEF Bypassed
  <2> QED
    BY <1>2, <2>1, <2>2, BelowSame
<1>9. Delete(b, c) = g
  BY <1>8 DEF Delete
<1> HIDE DEF gone, B
<1>10. /\ IsHeap(g) /\ DOMAIN g = D \ gone /\ \A j \in D \ gone : g[j] = b[j]
  <2>1. IsHeap(b) /\ DOMAIN b = D
    BY <1>7 DEF Bypassed
  <2> QED
    BY <2>1, WithoutFacts
<1>11. DOMAIN l = D \ gone /\ l[p] = r /\ \A x \in (D \ gone) \ {p} : l[x] = k[x]
  BY <1>1, <1>3 DEF Without
<1> HIDE DEF g, l, r
<1>12. \A j \in D \ gone :
          /\ g[j].parent = h[j].parent
          /\ g[j].next = IF j = EntryOr0(q, n - 1) THEN EntryOr0(q, n + 1) ELSE h[j].next
          /\ g[j].prev = IF j = EntryOr0(q, n + 1) THEN EntryOr0(q, n - 1) ELSE h[j].prev
          /\ g[j].firstChild = IF j = p /\ EntryOr0(q, n - 1) = Null THEN EntryOr0(q, n + 1)
                               ELSE h[j].firstChild
          /\ g[j].lastChild = IF j = p /\ EntryOr0(q, n + 1) = Null THEN EntryOr0(q, n - 1)
                              ELSE h[j].lastChild
  BY <1>2, <1>7, <1>10 DEF Bypassed
<1> HIDE DEF q, c
<1>13. \A m \in Int : EntryOr0(r, m) = IF m < n THEN EntryOr0(q, m) ELSE EntryOr0(q, m + 1)
  BY <1>1, <1>6 DEF EntryOr0
<1>14. ASSUME NEW m \in 1..Len(q), m # n
       PROVE  /\ q[m] \in D \ gone /\ g[q[m]].parent = p
              /\ g[q[m]].next = IF m = n - 1 THEN EntryOr0(q, n + 1) ELSE EntryOr0(q, m + 1)
              /\ g[q[m]].prev = IF m = n + 1 THEN EntryOr0(q, n - 1) ELSE EntryOr0(q, m - 1)
  <2>1. q[m] \in D \ gone /\ h[q[m]].parent = p
    BY <1>1, <1>3, <1>4, <1>5, <1>14 DEF c
  <2>2. h[q[m]].next = EntryOr0(q, m + 1) /\ h[q[m]].prev = EntryOr0(q, m - 1)
    BY <1>1 DEF Row
  <2>3. q[m] = EntryOr0(q, n - 1) <=> m = n - 1
    BY <1>1, <1>5, <2>1 DEF EntryOr0
  <2>4. q[m] = EntryOr0(q, n + 1) <=> m = n + 1
    BY <1>1, <1>5, <2>1 DEF EntryOr0
  <2> QED
    BY <1>12, <2>1, <2>2, <2>3, <2>4
<1>15. ASSUME NEW m \in 1..Len(r)
       PROVE  /\ r[m] \in D \ gone
              /\ g[r[m]].parent = p
              /\ g[r[m]].next = EntryOr0(r, m + 1)
              /\ g[r[m]].prev = EntryOr0(r, m - 1)
              /\ \A x \in 1..m - 1 : r[x] # r[m]
  <2> DEFINE Old(x) == IF x < n THEN x ELSE x + 1
  <2>1. \A x \in 1..Len(r) : Old(x) \in 1..Len(q) /\ Old(x) # n /\ r[x] = q[Old(x)]
    BY <1>1, <1>6
  <2>2. ASSUME NEW x \in 1..m - 1 PROVE r[x] # r[m]
    <3>1. x \in 1..Len(r) /\ Old(x) # Old(m)
      BY <1>1, <1>6
    <3> HIDE DEF Old
    <3> QED
      BY <1>5, <2>1, <3>1
  <2>3. /\ EntryOr0(r, m + 1) = IF Old(m) = n - 1 THEN EntryOr0(q, n + 1)
                                ELSE EntryOr0(q, Old(m) + 1)
        /\ EntryOr0(r, m - 1) = IF Old(m) = n + 1 THEN EntryOr0(q, n - 1)
                                ELSE EntryOr0(q, Old(m) - 1)
    <3>1. m \in Int /\ n \in Int /\ m + 1 \in Int /\ m - 1 \in Int
      BY <1>1, <1>6
    <3>2. /\ EntryOr0(r, m + 1) = IF m + 1 < n THEN EntryOr0(q, m + 1) ELSE EntryOr0(q, (m + 1) + 1)
          /\ EntryOr0(r, m - 1) = IF m - 1 < n THEN EntryOr0(q, m - 1) ELSE EntryOr0(q, (m - 1) + 1)
      BY <1>13, <3>1
    <3>3. CASE m < n
      <4>1. Old(m) = m /\ m # n + 1 /\ (m = n - 1 <=> ~(m + 1 < n)) /\ m - 1 < n
            /\ (m = n - 1 => (m + 1) + 1 = n + 1)
        BY <3>1, <3>3
      <4> HIDE DEF Old
      <4> QED
        BY <3>2, <4>1
    <3>4. CASE m = n
      <4>1. Old(m) = n + 1 /\ n + 1 # n - 1 /\ ~(m + 1 < n) /\ m - 1 < n
            /\ (m + 1) + 1 = (n + 1) + 1
        BY <3>1, <3>4
      <4> HIDE DEF Old
      <4> QED
        BY <3>2, <3>4, <4>1
    <3>5. CASE m > n
      <4>1. Old(m) = m + 1 /\ m + 1 # n + 1 /\ m + 1 # n - 1 /\ ~(m + 1 < n) /\ ~(m - 1 < n)
            /\ (m - 1) + 1 = (m + 1) - 1
        BY <3>1, <3>5
      <4> HIDE DEF Old
      <4> QED
        BY <3>2, <4>1
    <3> QED
      BY <3>1, <3>3, <3>4, <3>5
  <2> HIDE DEF Old
  <2> QED
    BY <1>14, <2>1, <2>2, <2>3
<1>16. g[p].firstChild = EntryOr0(r, 1) /\ g[p].lastChild = EntryOr0(r, Len(r))
  <2>1. h[p].firstChild = EntryOr0(q, 1) /\ h[p].lastChild = EntryOr0(q, Len(q))
    BY <1>1 DEF Row
  <2>2. (EntryOr0(q, n - 1) = Null <=> n = 1) /\ (EntryOr0(q, n + 1) = Null <=> n = Len(q))
    BY <1>1, <1>4 DEF EntryOr0
  <2>3. /\ EntryOr0(r, 1) = IF n = 1 THEN EntryOr0(q, n + 1) ELSE EntryOr0(q, 1)
        /\ EntryOr0(r, Len(r)) = IF n = Len(q) THEN EntryOr0(q, n - 1) ELSE EntryOr0(q, Len(q))
    <3>1. Len(r) = Len(q) - 1 /\ Len(r) \in Int /\ Len(r) + 1 = Len(q)
      BY <1>1, <1>6
    <3>2. /\ EntryOr0(r, 1) = IF 1 < n THEN EntryOr0(q, 1) ELSE EntryOr0(q, 1 + 1)
          /\ EntryOr0(r, Len(r)) = IF Len(r) < n THEN EntryOr0(q, Len(r))
                                   ELSE EntryOr0(q, Len(r) + 1)
      <4>1. Len(r) \in Int /\ 1 \in Int
        BY <3>1
      <4> QED
        BY <1>13, <4>1, Zenon
    <3>3. (1 < n <=> n # 1) /\ (n = 1 => n + 1 = 1 + 1)
          /\ (Len(r) < n <=> n = Len(q)) /\ (n = Len(q) => Len(r) = n - 1)
      BY <1>1, <3>1
    <3> QED
      BY <3>1, <3>2, <3>3
  <2>4. p \in D \ gone
    BY <1>3
  <2> QED
    BY <1>12, <2>1, <2>2, <2>3, <2>4
<1>17. Row(g, p, r)
  BY <1>15, <1>16 DEF Row
<1>18. r \in Seq(D \ gone)
  BY <1>6, <1>15
<1>19. ASSUME NEW j \in D \ gone, g[j].parent = p PROVE \E m \in 1..Len(r) : r[m] = j
  <2>1. h[j].parent = p /\ j # c
    BY <1>12, <1>19 DEF gone
  <2>2. PICK m \in 1..Len(q) : q[m] = j
    BY <1>1, <2>1 DEF Forest, Parents, q
  <2>3. m # n
    BY <2>1, <2>2 DEF c
  <2>4. CASE m < n
    <3>1. m \in 1..Len(r) /\ r[m] = j
      BY <1>1, <1>6, <2>2, <2>4
    <3> QED
      BY <3>1
  <2>5. CASE m > n
    <3>1. m - 1 \in 1..Len(r) /\ r[m - 1] = q[(m - 1) + 1] /\ (m - 1) + 1 = m
      BY <1>1, <1>6, <2>2, <2>5
    <3> QED
      BY <2>2, <3>1
  <2> QED
    BY <1>1, <2>3, <2>4, <2>5
<1>20. ASSUME NEW j \in D \ gone, h[j].parent \notin {p, Null}
       PROVE  g[j].next = h[j].next /\ g[j].prev = h[j].prev
  <2>1. j # EntryOr0(q, n - 1) /\ j # EntryOr0(q, n + 1)
    BY <1>1, <1>4, <1>20 DEF EntryOr0
  <2> QED
    BY <1>12, <2>1
<1>21. \A x \in (D \ gone) \ {p} : /\ g[x].firstChild = h[x].firstChild
                                 /\ g[x].lastChild = h[x].lastChild
  BY <1>12
<1>22. Reworked(h, k, g, l, p, Null, gone)
  BY <1>1, <1>3, <1>10, <1>11, <1>12, <1>17, <1>18, <1>19, <1>20, <1>21 DEF Reworked
<1>23. Forest(g, l)
  BY <1>22, ReworkedForest
<1>24. g = Unlink(h, p, c)
  BY <1>9 DEF Unlink, b
<1>25. Keeps(g, h, Null)
  <2>1. \A j \in D : h[j].parent = Null => j \in D \ gone
    BY <1>1, <1>2, <1>3
  <2>2. \A j \in D \ gone : g[j].type = h[j].type /\ g[j].attrs = h[j].attrs
    BY <1>7, <1>10 DEF Bypassed
  <2> QED
    BY <1>10, <1>12, <2>1, <2>2 DEF Keeps
<1> QED
  BY <1>23, <1>24, <1>25 DEF l, r, gone, B, c, q

\* ReplaceChild's links.
LEMMA ExchangeForest ==
    ASSUME NEW h, NEW k, NEW p \in DOMAIN h, NEW n \in 1..Len(k[p]), NEW i \in DOMAIN h,
           Forest(h, k), h[i].parent = Null, p \notin {i} \cup Below(h, i)
    PROVE  /\ Forest(Exchange(h, p, k[p][n], i),
                     Without([k EXCEPT ![p] = [@ EXCEPT ![n] = i]],
                             {k[p][n]} \cup Below(h, k[p][n])))
           /\ Keeps(Exchange(h, p, k[p][n], i), h, i)
<1> DEFINE D == DOMAIN h
           q == k[p]
           c == q[n]
           B == Below(h, c)
           gone == {c} \cup B
           h1 == Set(h, i, "next", h[c].next)
           h2 == Set(h1, i, "prev", h[c].prev)
           b == Bypass(h2, p, c, i, i)
           g1 == Without(b, gone)
           g == Set(g1, i, "parent", p)
           r == [q EXCEPT ![n] = i]
           l == Without([k EXCEPT ![p] = r], gone)
<1>1. /\ q \in Seq(D) /\ Len(q) \in Nat /\ Row(h, p, q) /\ Null \notin D /\ DOMAIN k = D
      /\ n \in 1..Len(q) /\ IsHeap(h)
  BY NullIsNoPlace DEF Forest, Rows
<1>2. /\ c \in D /\ h[c].parent = p /\ c # p /\ p \notin B
      /\ h[c].next = EntryOr0(q, n + 1) /\ h[c].prev = EntryOr0(q, n - 1)
      /\ h[c].next \in D \cup {Null} /\ h[c].prev \in D \cup {Null}
      /\ h[c].prev \notin gone /\ h[c].next \notin gone
  BY ChildFacts
<1>3. /\ gone \in SUBSET D /\ p \notin gone
      /\ \A j \in D : h[j].parent \in gone => j \in gone
      /\ \A j \in gone : h[j].parent \in gone \cup {p}
      /\ \A j \in D : h[j].parent \in {Null, p} /\ j # c => j \notin gone
  BY <1>2, GoneFacts
<1>4. i # c /\ i \notin gone
  BY <1>1, <1>2, <1>3
<1>5. \A m \in 1..Len(q) : q[m] \in D /\ h[q[m]].parent = p
  BY RowFacts
<1>6. \A m, x \in 1..Len(q) : q[m] = q[x] => m = x
  BY RowFacts
<1>7. /\ r \in Seq(D) /\ Len(r) = Len(q)
      /\ \A m \in 1..Len(q) : r[m] = IF m = n THEN i ELSE q[m]
  BY <1>1
<1>8. Fields = {"type", "value", "attrs", "parent", "firstChild", "lastChild", "prev", "next"}
  BY DEF Fields
<1>9. Writes(h1, h, i, "next", h[c].next)
  BY <1>1, <1>8, SetFacts
<1> HIDE DEF h1
<1>10. Writes(h2, h1, i, "prev", h[c].prev)
  <2>1. IsHeap(h1) /\ i \in DOMAIN h1
    BY <1>9 DEF Writes
  <2> QED
    BY <1>8, <2>1, SetFacts
<1> HIDE DEF h2
<1>11. /\ IsHeap(h2) /\ DOMAIN h2 = D
       /\ \A j \in D : /\ h2[j].parent = h[j].parent
                       /\ h2[j].type = h[j].type /\ h2[j].attrs = h[j].attrs
                       /\ h2[j].firstChild = h[j].firstChild /\ h2[j].lastChild = h[j].lastChild
                       /\ h2[j].next = IF j = i THEN h[c].next ELSE h[j].next
                       /\ h2[j].prev = IF j = i THEN h[c].prev ELSE h[j].prev
  BY <1>8, <1>9, <1>10 DEF Writes
<1>12. h2[c].next = h[c].next /\ h2[c].prev = h[c].prev
  BY <1>2, <1>4, <1>11
<1>13. Bypassed(b, h2, p, c, i, i)
  BY <1>2, <1>11, <1>12, BypassFacts
<1> HIDE DEF b
<1>14. Below(b, c) = B
  <2>1. DOMAIN b = D /\ b[c].firstChild = h[c].firstChild
    BY <1>2, <1>11, <1>13 DEF Bypassed
  <2>2. ASSUME NEW j \in B PROVE b[j].firstChild = h[j].firstChild /\ b[j].next = h[j].next
    <3>1. j \in D /\ j # p /\ j # i /\ j # h[c].prev
      BY <1>2, <1>3, <1>4
    <3>2. b[j].firstChild = h2[j].firstChild /\ b[j].next = h2[j].next
      BY <1>11, <1>12, <1>13, <3>1 DEF Bypassed
    <3> QED
      BY <1>11, <3>1, <3>2
  <2> QED
    BY <1>2, <2>1, <2>2, BelowSame
<1>15. Delete(b, c) = g1
  BY <1>14 DEF Delete
<1> HIDE DEF gone, B
<1>16. /\ IsHeap(g1) /\ DOMAIN g1 = D \ gone /\ \A j \in D \ gone : g1[j] = b[j]
  <2>1. IsHeap(b) /\ DOMAIN b = D
    BY <1>11, <1>13 DEF Bypassed
  <2> QED
    BY <2>1, WithoutFacts
<1> HIDE DEF g1
<1>17. Writes(g, g1, i, "parent", p)
  <2>1. i \in DOMAIN g1
    BY <1>4, <1>16
  <2> QED
    BY <1>8, <1>16, <2>1, SetFacts
<1>18. DOMAIN l = D \ gone /\ l[p] = r /\ \A x \in (D \ gone) \ {p} : l[x] = k[x]
  BY <1>1, <1>3 DEF Without
<1> HIDE DEF g, l, r
<1>19. \A j \in D \ gone :
          /\ g[j].parent = IF j = i THEN p ELSE h[j].parent
          /\ g[j].next = IF j = EntryOr0(q, n - 1) THEN i
                         ELSE IF j = i THEN EntryOr0(q, n + 1) ELSE h[j].next
          /\ g[j].prev = IF j = EntryOr0(q, n + 1) THEN i
                         ELSE IF j = i THEN EntryOr0(q, n - 1) ELSE h[j].prev
          /\ g[j].firstChild = IF j = p /\ EntryOr0(q, n - 1) = Null THEN i ELSE h[j].firstChild
          /\ g[j].lastChild = IF j = p /\ EntryOr0(q, n + 1) = Null THEN i ELSE h[j].lastChild
  <2> SUFFICES ASSUME NEW j \in D \ gone
        PROVE  /\ g[j].parent = IF j = i THEN p ELSE h[j].parent
               /\ g[j].next = IF j = h[c].prev THEN i
                              ELSE IF j = i THEN h[c].next ELSE h[j].next
               /\ g[j].prev = IF j = h[c].next THEN i
                              ELSE IF j = i THEN h[c].prev ELSE h[j].prev
               /\ g[j].firstChild = IF j = p /\ h[c].prev = Null THEN i ELSE h[j].firstChild
               /\ g[j].lastChild = IF j = p /\ h[c].next = Null THEN i ELSE h[j].lastChild
    BY <1>2
  <2>1. /\ g[j].parent = IF j = i THEN p ELSE b[j].parent
        /\ g[j].next = b[j].next /\ g[j].prev = b[j].prev
        /\ g[j].firstChild = b[j].firstChild /\ g[j].lastChild = b[j].lastChild
    BY <1>8, <1>16, <1>17 DEF Writes
  <2>2. /\ b[j].parent = h2[j].parent
        /\ b[j].next = IF j = h[c].prev THEN i ELSE h2[j].next
        /\ b[j].prev = IF j = h[c].next THEN i ELSE h2[j].prev
        /\ b[j].firstChild = IF j = p /\ h[c].prev = Null THEN i ELSE h2[j].firstChild
        /\ b[j].lastChild = IF j = p /\ h[c].next = Null THEN i ELSE h2[j].lastChild
    BY <1>11, <1>12, <1>13 DEF Bypassed
  <2> QED
    BY <1>11, <2>1, <2>2
<1>20. IsHeap(g) /\ DOMAIN g = D \ gone
  BY <1>16, <1>17 DEF Writes
<1> HIDE DEF q, c
<1>21. \A m \in Int : EntryOr0(r, m) = IF m = n THEN i ELSE EntryOr0(q, m)
  BY <1>1, <1>7 DEF EntryOr0
<1>22. ASSUME NEW m \in 1..Len(q)
       PROVE  /\ r[m] \in D \ gone /\ g[r[m]].parent = p
              /\ g[r[m]].next = EntryOr0(r, m + 1) /\ g[r[m]].prev = EntryOr0(r, m - 1)
              /\ \A x \in 1..m - 1 : r[x] # r[m]
  <2>1. \A x \in 1..Len(q) : q[x] # i /\ q[x] # Null
    BY <1>1, <1>5
  <2>2. \A x \in 1..m - 1 : r[x] # r[m]
    BY <1>1, <1>6, <1>7, <2>1
  <2>3. /\ EntryOr0(r, m + 1) = IF m = n - 1 THEN i ELSE EntryOr0(q, m + 1)
        /\ EntryOr0(r, m - 1) = IF m = n + 1 THEN i ELSE EntryOr0(q, m - 1)
    <3>1. m + 1 \in Int /\ m - 1 \in Int /\ (m + 1 = n <=> m = n - 1) /\ (m - 1 = n <=> m = n + 1)
      BY <1>1
    <3> QED
      BY <1>21, <3>1
  <2>4. CASE m = n
    <3>1. i # EntryOr0(q, n - 1) /\ i # EntryOr0(q, n + 1) /\ i \in D \ gone
      BY <1>1, <1>4, <2>1 DEF EntryOr0
    <3>2. m # n - 1 /\ m # n + 1 /\ r[m] = i
      BY <1>1, <1>7, <2>4
    <3> QED
      BY <1>19, <2>2, <2>3, <2>4, <3>1, <3>2
  <2>5. CASE m # n
    <3>1. r[m] = q[m] /\ q[m] # i /\ q[m] \in D \ gone /\ h[q[m]].parent = p
      BY <1>1, <1>3, <1>5, <1>6, <1>7, <2>1, <2>5 DEF c
    <3>2. h[q[m]].next = EntryOr0(q, m + 1) /\ h[q[m]].prev = EntryOr0(q, m - 1)
      BY <1>1 DEF Row
    <3>3. q[m] = EntryOr0(q, n - 1) <=> m = n - 1
      BY <1>1, <1>6, <2>1 DEF EntryOr0
    <3>4. q[m] = EntryOr0(q, n + 1) <=> m = n + 1
      BY <1>1, <1>6, <2>1 DEF EntryOr0
    <3> QED
      BY <1>19, <2>2, <2>3, <3>1, <3>2, <3>3, <3>4
  <2> QED
    BY <2>4, <2>5
<1>23. g[p].firstChild = EntryOr0(r, 1) /\ g[p].lastChild = EntryOr0(r, Len(r))
  <2>1. h[p].firstChild = EntryOr0(q, 1) /\ h[p].lastChild = EntryOr0(q, Len(q))
    BY <1>1 DEF Row
  <2>2. (EntryOr0(q, n - 1) = Null <=> n = 1) /\ (EntryOr0(q, n + 1) = Null <=> n = Len(q))
    BY <1>1, <1>5 DEF EntryOr0
  <2>3. /\ EntryOr0(r, 1) = IF n = 1 THEN i ELSE EntryOr0(q, 1)
        /\ EntryOr0(r, Len(r)) = IF n = Len(q) THEN i ELSE EntryOr0(q, Len(q))
    BY <1>1, <1>7, <1>21
  <2>4. p \in D \ gone
    BY <1>3
  <2> QED
    BY <1>19, <2>1, <2>2, <2>3, <2>4
<1>24. Row(g, p, r) /\ r \in Seq(D \ gone)
  BY <1>7, <1>22, <1>23 DEF Row
<1>25. ASSUME NEW j \in D \ gone, g[j].parent = p PROVE \E m \in 1..Len(r) : r[m] = j
  <2>1. CASE j = i
    BY <1>1, <1>7, <2>1
  <2>2. CASE j # i
    <3>1. h[j].parent = p /\ j # c
      BY <1>19, <1>25, <2>2 DEF gone
    <3>2. PICK m \in 1..Len(q) : q[m] = j
      BY <1>1, <3>1 DEF Forest, Parents, q
    <3> QED
      BY <1>7, <3>1, <3>2 DEF c
  <2> QED
    BY <2>1, <2>2
<1>26. ASSUME NEW j \in D \ gone, h[j].parent \notin {p, Null}
       PROVE  g[j].next = h[j].next /\ g[j].prev = h[j].prev
  <2>1. j # EntryOr0(q, n - 1) /\ j # EntryOr0(q, n + 1) /\ j # i
    BY <1>1, <1>5, <1>26 DEF EntryOr0
  <2> QED
    BY <1>19, <2>1
<1>27. /\ \A x \in (D \ gone) \ {p} : /\ g[x].firstChild = h[x].firstChild
                                    /\ g[x].lastChild = h[x].lastChild
       /\ i \in D \ gone /\ g[i].parent = p /\ \A j \in (D \ gone) \ {i} : g[j].parent = h[j].parent
  BY <1>4, <1>19
<1>28. Reworked(h, k, g, l, p, i, gone)
  BY <1>1, <1>3, <1>18, <1>20, <1>24, <1>25, <1>26, <1>27 DEF Reworked
<1>29. Forest(g, l)
  BY <1>28, ReworkedForest
<1>30. g = Exchange(h, p, c, i)
  BY <1>15 DEF Exchange, g, b, h2, h1
<1>31. Keeps(g, h, i)
  <2>1. \A j \in D \ {i} : h[j].parent = Null => j \in D \ gone
    BY <1>1, <1>2, <1>3
  <2>2. \A j \in D \ gone : g[j].type = b[j].type /\ g[j].attrs = b[j].attrs
    BY <1>8, <1>16, <1>17 DEF Writes
  <2>3. \A j \in D \ gone : b[j].type = h[j].type /\ b[j].attrs = h[j].attrs
    BY <1>11, <1>13 DEF Bypassed
  <2> QED
    BY <1>19, <1>20, <2>1, <2>2, <2>3 DEF Keeps
<1> QED
  BY <1>29, <1>30, <1>31 DEF l, r, gone, B, c, q

-----------------------------------------------------------------------------
\* A node that is made has no links; what a node holds is not a link.
LEMMA NodeOfIs ==
    ASSUME NEW n
    PROVE  /\ DOMAIN NodeOf(n) = Fields
           /\ NodeOf(n).parent = Null /\ NodeOf(n).firstChild = Null /\ NodeOf(n).lastChild = Null
           /\ NodeOf(n).type = n.type /\ NodeOf(n).attrs = n.attrs
  BY DEF NodeOf, Fields

LEMMA CloneNodeIs ==
    ASSUME NEW n
    PROVE  /\ DOMAIN CloneNode(n) = Fields
           /\ CloneNode(n).parent = Null
           /\ CloneNode(n).firstChild = Null /\ CloneNode(n).lastChild = Null
           /\ CloneNode(n).type = n.type /\ CloneNode(n).attrs = Carried(n)
  BY DEF CloneNode, NodeOf, Fields

\* A new node is a root without children.
LEMMA NewForest ==
    ASSUME NEW h, NEW k, NEW at, NEW n, Forest(h, k), at \in Unused(h), DOMAIN n = Fields,
           n.parent = Null, n.firstChild = Null, n.lastChild = Null
    PROVE  Forest(New(h, at, n), New(k, at, <<>>))
<1> DEFINE D == DOMAIN h
           g == New(h, at, n)
           l == New(k, at, <<>>)
<1>1. at \in Places /\ at \notin D /\ IsHeap(h) /\ DOMAIN k = D /\ Null \notin D
  BY NullIsNoPlace DEF Unused, Forest, Rows
<1>2. DOMAIN g = D \cup {at} /\ g[at] = n /\ \A j \in D : g[j] = h[j]
  BY <1>1 DEF New
<1>3. DOMAIN l = D \cup {at} /\ l[at] = <<>> /\ \A j \in D : l[j] = k[j]
  BY <1>1 DEF New
<1> HIDE DEF g, l
<1>4. IsHeap(g)
  BY <1>1, <1>2 DEF IsHeap
<1>5. Rows(g, l)
  <2>1. l[at] \in Seq(DOMAIN g) /\ Row(g, at, l[at])
    BY <1>2, <1>3 DEF Row, EntryOr0
  <2>2. ASSUME NEW p \in D PROVE l[p] \in Seq(DOMAIN g) /\ Row(g, p, l[p])
    <3>1. k[p] \in Seq(D) /\ Row(h, p, k[p]) /\ l[p] = k[p]
      BY <1>3 DEF Forest, Rows
    <3>2. Len(k[p]) \in Nat /\ \A m \in 1..Len(k[p]) : k[p][m] \in D
      BY <3>1
    <3>3. k[p] \in Seq(DOMAIN g)
      BY <1>2, <3>1, <3>2
    <3>4. Row(g, p, k[p])
      BY <1>2, <3>1, <3>2 DEF Row
    <3> QED
      BY <3>1, <3>3, <3>4
  <2> QED
    BY <1>2, <1>3, <2>1, <2>2 DEF Rows
<1>6. Parents(g, l)
  BY <1>2, <1>3 DEF Forest, Parents
<1>7. Grounded(g)
  <2> SUFFICES ASSUME NEW S \in SUBSET DOMAIN g,
                      \A j \in DOMAIN g : g[j].parent \in S \cup {Null} => j \in S
               PROVE  S = DOMAIN g
    BY DEF Grounded
  <2>1. at \in S
    BY <1>2
  <2>2. \A j \in D : h[j].parent \in (S \cap D) \cup {Null} => j \in S \cap D
    BY <1>2
  <2>3. S \cap D = D
    BY <2>2 DEF Forest, Grounded
  <2> QED
    BY <1>2, <2>1, <2>3
<1> QED
  BY <1>4, <1>5, <1>6, <1>7 DEF Forest, g, l

\* Links that are the same make the same forest.
LEMMA SameForest ==
    ASSUME NEW h, NEW k, NEW g, Forest(h, k), IsHeap(g), DOMAIN g = DOMAIN h,
           \A j \in DOMAIN h : /\ g[j].parent = h[j].parent
                               /\ g[j].firstChild = h[j].firstChild
                               /\ g[j].lastChild = h[j].lastChild
                               /\ g[j].next = h[j].next /\ g[j].prev = h[j].prev
    PROVE  Forest(g, k)
<1>1. DOMAIN k = DOMAIN h /\ Null \notin DOMAIN h
  BY NullIsNoPlace DEF Forest, Rows
<1>2. Reworked(h, k, g, k, Null, Null, {})
  BY <1>1 DEF Reworked
<1> QED
  BY <1>2, ReworkedForest

\* The copy of a node has what is carried over and the images of its links.
LEMMA CopyOfIs ==
    ASSUME NEW n, NEW m, DOMAIN n = Fields
    PROVE  /\ DOMAIN CopyOf(n, m) = Fields
           /\ CopyOf(n, m).parent = Image(m, n.parent)
           /\ CopyOf(n, m).next = Image(m, n.next)
           /\ CopyOf(n, m).prev = Image(m, n.prev)
           /\ CopyOf(n, m).type = n.type /\ CopyOf(n, m).attrs = Carried(n)
           /\ CopyOf(n, m).firstChild = Image(m, n.firstChild)
           /\ CopyOf(n, m).lastChild = Image(m, n.lastChild)
<1>1. /\ "parent" \in DOMAIN n /\ "prev" \in DOMAIN n /\ "next" \in DOMAIN n /\ "type" \in DOMAIN n
      /\ "attrs" \in DOMAIN n /\ "firstChild" \in DOMAIN n /\ "lastChild" \in DOMAIN n
  BY DEF Fields
<1>2. DOMAIN CopyOf(n, m) = DOMAIN n
  BY DEF CopyOf
<1> QED
  BY <1>1, <1>2 DEF CopyOf

\* A copy is linked as the original, and is the only change.
Placed(h, from, m) ==
    /\ DOMAIN m = {from} \cup Below(h, from) /\ m[from] \in DOMAIN h
    /\ \A j \in Below(h, from) : m[j] \in Places \ DOMAIN h
    /\ \A i, j \in DOMAIN m : m[i] = m[j] => i = j
    /\ \A j \in DOMAIN h : h[j].parent # m[from]
Images(h, from, m) == {m[j] : j \in Below(h, from)}
Copied(g, l, h, k, from, m) ==
    /\ IsHeap(g)
    /\ DOMAIN g = DOMAIN h \cup Images(h, from, m) /\ DOMAIN l = DOMAIN h \cup Images(h, from, m)
    /\ \A j \in DOMAIN h \ {m[from]} : g[j] = h[j] /\ l[j] = k[j]
    /\ g[m[from]].parent = h[m[from]].parent
    /\ g[m[from]].next = h[m[from]].next /\ g[m[from]].prev = h[m[from]].prev
    /\ g[m[from]].type = h[m[from]].type /\ g[m[from]].attrs = h[m[from]].attrs
    /\ \A j \in DOMAIN m : /\ l[m[j]] = [n \in 1..Len(k[j]) |-> m[k[j][n]]]
                           /\ g[m[j]].firstChild = Image(m, h[j].firstChild)
                           /\ g[m[j]].lastChild = Image(m, h[j].lastChild)
    /\ \A j \in Below(h, from) : /\ g[m[j]].parent = Image(m, h[j].parent)
                                 /\ g[m[j]].next = Image(m, h[j].next)
                                 /\ g[m[j]].prev = Image(m, h[j].prev)
                                 /\ g[m[j]].type = h[j].type
                                 /\ g[m[j]].attrs = Carried(h[j])

\* CopyTo and CopyKids make that copy.
LEMMA CopyFacts ==
    ASSUME NEW h, NEW k, NEW from \in DOMAIN h, NEW m, Forest(h, k), Placed(h, from, m)
    PROVE  Copied(CopyTo(h, from, m), CopyKids(k, m), h, k, from, m)
<1> DEFINE D == DOMAIN h
           B == Below(h, from)
           t == m[from]
           new == {m[j] : j \in B}
           g == CopyTo(h, from, m)
           l == CopyKids(k, m)
<1>1. /\ B \in SUBSET D /\ from \notin B /\ IsHeap(h) /\ DOMAIN k = D
  BY BelowIs, NotBelowItself DEF IsBelow, Forest, Rows
<1> HIDE DEF B
<1>2. DOMAIN m = {from} \cup B /\ t \in D /\ \A j \in B : m[j] \in Places \ D
  BY DEF B, Placed
<1>3. Range(m) = {t} \cup new
  BY <1>2 DEF Range
<1>4. DOMAIN g = D \cup new /\ DOMAIN l = D \cup new
  BY <1>1, <1>2, <1>3 DEF CopyTo, CopyKids
<1>5. \A j \in DOMAIN m : Original(m, m[j]) = j
  BY DEF Original, Placed
<1>6. new \cap D = {}
  BY <1>2
<1>7. ASSUME NEW j \in D \ {t} PROVE g[j] = h[j] /\ l[j] = k[j]
  <2>1. j \in D \cup Range(m) /\ j \notin Range(m) /\ j # m[from]
    BY <1>3, <1>6
  <2>2. g[j] = h[j]
    BY <2>1 DEF CopyTo
  <2>3. l[j] = k[j]
    BY <1>1, <2>1 DEF CopyKids
  <2> QED
    BY <2>2, <2>3
<1>8. g[t] = [h[t] EXCEPT !.firstChild = Image(m, h[from].firstChild),
                          !.lastChild = Image(m, h[from].lastChild)]
  BY <1>2 DEF CopyTo
<1>9. ASSUME NEW j \in B PROVE g[m[j]] = CopyOf(h[j], m)
  <2>1. m[j] \notin D /\ m[j] # m[from] /\ m[j] \in Range(m)
    BY <1>2, <1>3
  <2>2. g[m[j]] = CopyOf(h[Original(m, m[j])], m)
    BY <2>1 DEF CopyTo
  <2> QED
    BY <1>2, <1>5, <2>2
<1>10. ASSUME NEW j \in DOMAIN m PROVE l[m[j]] = [n \in 1..Len(k[j]) |-> m[k[j][n]]]
  <2>1. m[j] \in Range(m) /\ Original(m, m[j]) = j
    BY <1>5 DEF Range
  <2>2. l[m[j]] = [n \in 1..Len(k[Original(m, m[j])]) |-> m[k[Original(m, m[j])][n]]]
    BY <2>1 DEF CopyKids
  <2> QED
    BY <2>1, <2>2
<1> HIDE DEF g, l
<1>11. DOMAIN h[t] = Fields /\ \A j \in B : DOMAIN h[j] = Fields
  BY <1>1, <1>2 DEF IsHeap
<1>12. /\ DOMAIN g[t] = Fields /\ g[t].parent = h[t].parent
       /\ g[t].next = h[t].next /\ g[t].prev = h[t].prev
       /\ g[t].type = h[t].type /\ g[t].attrs = h[t].attrs
       /\ g[t].firstChild = Image(m, h[from].firstChild)
       /\ g[t].lastChild = Image(m, h[from].lastChild)
  BY <1>8, <1>11 DEF Fields
<1>13. ASSUME NEW j \in B
       PROVE  /\ DOMAIN g[m[j]] = Fields
              /\ g[m[j]].parent = Image(m, h[j].parent)
              /\ g[m[j]].next = Image(m, h[j].next)
              /\ g[m[j]].prev = Image(m, h[j].prev)
              /\ g[m[j]].type = h[j].type
              /\ g[m[j]].attrs = Carried(h[j])
              /\ g[m[j]].firstChild = Image(m, h[j].firstChild)
              /\ g[m[j]].lastChild = Image(m, h[j].lastChild)
  <2> DEFINE n == h[j]
             c == CopyOf(n, m)
  <2>1. DOMAIN n = Fields /\ g[m[j]] = c
    BY <1>9, <1>11
  <2> HIDE DEF n
  <2>2. /\ DOMAIN c = Fields
        /\ c.parent = Image(m, n.parent) /\ c.next = Image(m, n.next) /\ c.prev = Image(m, n.prev)
        /\ c.type = n.type /\ c.attrs = Carried(n)
        /\ c.firstChild = Image(m, n.firstChild) /\ c.lastChild = Image(m, n.lastChild)
    BY <2>1, CopyOfIs
  <2> HIDE DEF c
  <2> QED
    BY <2>1, <2>2 DEF n
<1>14. IsHeap(g)
  <2>1. DOMAIN g \in SUBSET Places
    BY <1>1, <1>2, <1>4 DEF IsHeap
  <2>2. ASSUME NEW j \in DOMAIN g PROVE DOMAIN g[j] = Fields
    <3>1. CASE j = t
      BY <1>12, <3>1
    <3>2. CASE j \in D \ {t}
      BY <1>1, <1>7, <3>2 DEF IsHeap
    <3>3. CASE j \in new
      BY <1>13, <3>3
    <3> QED
      BY <1>4, <3>1, <3>2, <3>3
  <2> QED
    BY <2>1, <2>2 DEF IsHeap
<1>15. ASSUME NEW j \in DOMAIN m
       PROVE  /\ g[m[j]].firstChild = Image(m, h[j].firstChild)
              /\ g[m[j]].lastChild = Image(m, h[j].lastChild)
  BY <1>2, <1>12, <1>13
<1> QED
  BY <1>4, <1>7, <1>10, <1>12, <1>13, <1>14, <1>15, Zenon DEF g, l, B, Copied, Images

\* A copy below a node that had no children leaves a forest, and nothing that was
\* there is below the copy.
LEMMA CopyForest ==
    ASSUME NEW h, NEW k, NEW from \in DOMAIN h, NEW m, Forest(h, k), Placed(h, from, m)
    PROVE  /\ Forest(CopyTo(h, from, m), CopyKids(k, m))
           /\ Below(CopyTo(h, from, m), m[from]) \cap DOMAIN h = {}
<1> DEFINE D == DOMAIN h
           B == Below(h, from)
           t == m[from]
           new == {m[j] : j \in B}
           g == CopyTo(h, from, m)
           l == CopyKids(k, m)
           E == D \cup new
<1>1. B \in SUBSET D /\ Null \notin D /\ Null \notin Places
  BY BelowIs, NullIsNoPlace, XmlLinksAssumption DEF IsBelow, Forest, Places, Null
<1>2. IsBelow(h, from, B)
  BY BelowIs
<1> HIDE DEF g, l
<1>3. Copied(g, l, h, k, from, m)
  BY CopyFacts DEF g, l
<1>4. \A j \in DOMAIN m : /\ l[m[j]] = [n \in 1..Len(k[j]) |-> m[k[j][n]]]
                          /\ g[m[j]].firstChild = Image(m, h[j].firstChild)
                          /\ g[m[j]].lastChild = Image(m, h[j].lastChild)
  BY <1>3 DEF Copied
<1>5. \A j \in B : /\ g[m[j]].parent = Image(m, h[j].parent)
                   /\ g[m[j]].next = Image(m, h[j].next)
                   /\ g[m[j]].prev = Image(m, h[j].prev)
  BY <1>3 DEF Copied
<1>6. /\ IsHeap(g) /\ DOMAIN g = E /\ DOMAIN l = E
      /\ \A j \in D \ {t} : g[j] = h[j] /\ l[j] = k[j]
      /\ g[t].parent = h[t].parent /\ g[t].next = h[t].next /\ g[t].prev = h[t].prev
  BY <1>3 DEF Copied, Images
<1>7. Placed(h, from, m)
  OBVIOUS
<1> HIDE DEF B
<1>8. \A j \in D : j \in B <=> h[j].parent \in {from} \cup B
  BY <1>2 DEF IsBelow
<1>9. \A x \in D : g[x].parent = h[x].parent
  BY <1>6
<1>10. /\ DOMAIN m = {from} \cup B /\ DOMAIN m \in SUBSET D /\ t \in D /\ from \in DOMAIN m
       /\ \A j \in B : m[j] \notin D /\ m[j] # t /\ m[j] # Null /\ m[j] \in E
       /\ \A i, j \in DOMAIN m : m[i] = m[j] => i = j
       /\ \A j \in D : h[j].parent # t
  BY <1>1, <1>7 DEF B, Placed
<1>11. \A j \in DOMAIN m : j \in D /\ j # Null /\ m[j] \in E /\ Image(m, j) = m[j]
  BY <1>1, <1>10 DEF Image
<1>12. Image(m, Null) = Null
  BY DEF Image
<1>13. \A x \in E \ (D \ {t}) : \E j \in DOMAIN m : x = m[j]
  BY <1>10
<1>14. ASSUME NEW x \in D \ {t} PROVE l[x] \in Seq(E) /\ Row(g, x, l[x])
  <2> DEFINE q == k[x]
  <2>1. q \in Seq(D) /\ Len(q) \in Nat /\ Row(h, x, q) /\ l[x] = q
    BY <1>6, <1>14 DEF Forest, Rows
  <2>2. \A n \in 1..Len(q) : q[n] \in D
    BY <1>14, RowFacts
  <2>3. /\ g[x].firstChild = h[x].firstChild /\ g[x].lastChild = h[x].lastChild
        /\ \A j \in D : g[j].parent = h[j].parent /\ g[j].next = h[j].next /\ g[j].prev = h[j].prev
    BY <1>6, <1>14
  <2>4. q \in Seq(E)
    BY <2>1, <2>2
  <2>5. Row(g, x, q)
    BY <2>1, <2>2, <2>3 DEF Row
  <2> QED
    BY <2>1, <2>4, <2>5
<1>15. ASSUME NEW j \in DOMAIN m PROVE l[m[j]] \in Seq(E) /\ Row(g, m[j], l[m[j]])
  <2> DEFINE q == k[j]
             r == l[m[j]]
  <2>1. q \in Seq(D) /\ Len(q) \in Nat /\ Row(h, j, q)
    BY <1>10 DEF Forest, Rows
  <2>2. \A n \in 1..Len(q) : q[n] \in B /\ q[n] \in DOMAIN m
    <3>1. \A n \in 1..Len(q) : q[n] \in D /\ h[q[n]].parent = j
      BY <1>10, RowFacts
    <3>2. j \in {from} \cup B
      BY <1>10
    <3> QED
      BY <1>10, <1>8, <3>1, <3>2
  <2>3. r = [n \in 1..Len(q) |-> m[q[n]]]
    BY <1>4
  <2>4. r \in Seq(E) /\ Len(r) = Len(q) /\ \A n \in 1..Len(q) : r[n] = m[q[n]]
    BY <1>11, <2>1, <2>2, <2>3
  <2>5. \A n, x \in 1..Len(q) : q[n] = q[x] => n = x
    BY <1>10, RowFacts
  <2> HIDE DEF q, r
  <2>6. \A n \in Int : EntryOr0(r, n) = Image(m, EntryOr0(q, n))
    BY <1>11, <1>12, <2>1, <2>2, <2>4 DEF EntryOr0
  <2>7. g[m[j]].firstChild = EntryOr0(r, 1) /\ g[m[j]].lastChild = EntryOr0(r, Len(r))
    <3>1. h[j].firstChild = EntryOr0(q, 1) /\ h[j].lastChild = EntryOr0(q, Len(q))
      BY <2>1 DEF Row
    <3> QED
      <4>1. EntryOr0(r, 1) = Image(m, EntryOr0(q, 1))
        BY <2>6
      <4>2. EntryOr0(r, Len(r)) = Image(m, EntryOr0(q, Len(q)))
        BY <2>1, <2>4, <2>6
      <4>3. /\ g[m[j]].firstChild = Image(m, h[j].firstChild)
            /\ g[m[j]].lastChild = Image(m, h[j].lastChild)
        BY <1>4, Zenon
      <4> QED
        BY <3>1, <4>1, <4>2, <4>3
  <2>8. ASSUME NEW n \in 1..Len(r)
        PROVE  /\ g[r[n]].parent = m[j]
               /\ g[r[n]].next = EntryOr0(r, n + 1)
               /\ g[r[n]].prev = EntryOr0(r, n - 1)
               /\ \A x \in 1..n - 1 : r[x] # r[n]
    <3>1. /\ h[q[n]].parent = j /\ h[q[n]].next = EntryOr0(q, n + 1)
          /\ h[q[n]].prev = EntryOr0(q, n - 1)
      BY <2>1, <2>4 DEF Row
    <3>2. n + 1 \in Int /\ n - 1 \in Int
      BY <2>1, <2>4
    <3>3. ASSUME NEW x \in 1..n - 1 PROVE r[x] # r[n]
      <4>1. x \in 1..Len(q) /\ n \in 1..Len(q) /\ x # n
        BY <2>1, <2>4
      <4>2. q[x] \in DOMAIN m /\ q[n] \in DOMAIN m /\ q[x] # q[n]
        BY <2>2, <2>5, <4>1
      <4> QED
        BY <1>10, <2>4, <4>1, <4>2
    <3> QED
      BY <1>5, <1>11, <2>2, <2>4, <2>6, <3>1, <3>2, <3>3
  <2>9. Row(g, m[j], r)
    BY <2>7, <2>8 DEF Row
  <2> QED
    BY <2>4, <2>9 DEF r
<1>16. Rows(g, l)
  <2>1. ASSUME NEW x \in E PROVE l[x] \in Seq(E) /\ Row(g, x, l[x])
    BY <1>13, <1>14, <1>15
  <2> QED
    BY <1>6, <2>1 DEF Rows
<1>17. Parents(g, l)
  <2> SUFFICES ASSUME NEW x \in E, g[x].parent # Null
               PROVE  /\ g[x].parent \in E
                      /\ \E n \in 1..Len(l[g[x].parent]) : l[g[x].parent][n] = x
    BY <1>6 DEF Parents
  <2>1. CASE x \in D
    <3>1. g[x].parent = h[x].parent
      BY <1>9, <2>1
    <3>2. h[x].parent \in D \ {t} /\ \E n \in 1..Len(k[h[x].parent]) : k[h[x].parent][n] = x
      BY <1>10, <2>1, <3>1 DEF Forest, Parents
    <3> QED
      BY <1>6, <3>1, <3>2
  <2>2. CASE x \in new
    <3>1. PICK j \in B : x = m[j]
      BY <2>2
    <3> DEFINE y == h[j].parent
               q == k[y]
    <3>2. y \in DOMAIN m /\ y # Null
      BY <1>1, <1>10, <1>8
    <3>3. g[x].parent = m[y]
      BY <1>5, <1>11, <3>1, <3>2
    <3>4. PICK n \in 1..Len(q) : q[n] = j
      BY <1>1, <3>2 DEF Forest, Parents
    <3>5. l[m[y]] = [a \in 1..Len(q) |-> m[q[a]]] /\ Len(q) \in Nat
      <4>1. y \in D
        BY <1>10, <3>2
      <4>2. Len(q) \in Nat
        BY <4>1, RowFacts
      <4> HIDE DEF y
      <4> QED
        BY <1>4, <3>2, <4>2, Zenon
    <3>6. n \in 1..Len(l[m[y]]) /\ l[m[y]][n] = x
      BY <3>1, <3>4, <3>5
    <3> QED
      BY <1>11, <3>2, <3>3, <3>6
  <2> QED
    BY <2>1, <2>2
<1>18. \A j \in B : h[j].parent \in DOMAIN m /\ g[m[j]].parent = m[h[j].parent]
  BY <1>1, <1>5, <1>10, <1>11, <1>8
<1>19. Grounded(g)
  <2> SUFFICES ASSUME NEW S \in SUBSET E, \A x \in E : g[x].parent \in S \cup {Null} => x \in S
               PROVE  S = E
    BY <1>6 DEF Grounded
  <2>1. \A x \in D : h[x].parent \in (S \cap D) \cup {Null} => x \in S \cap D
    BY <1>9
  <2>2. S \cap D = D
    BY <2>1 DEF Forest, Grounded
  <2> DEFINE U == {j \in B : m[j] \in S}
  <2>3. ASSUME NEW j \in D, h[j].parent \in {from} \cup U PROVE j \in U
    <3>1. j \in B
      BY <1>8, <2>3
    <3>2. m[h[j].parent] \in S
      BY <1>10, <2>2, <2>3
    <3> QED
      BY <1>10, <1>18, <3>1, <3>2
  <2>4. B \subseteq U
    <3>1. U \in SUBSET D
      BY <1>1
    <3> HIDE DEF U
    <3> QED
      BY <1>2, <2>3, <3>1 DEF IsBelow
  <2> QED
    BY <2>2, <2>4
<1>20. Forest(g, l)
  BY <1>6, <1>16, <1>17, <1>19 DEF Forest
<1>21. Below(g, t) \cap D = {}
  <2>1. IsBelow(g, t, Below(g, t))
    BY <1>6, <1>10, <1>20, BelowIs
  <2>2. \A x \in E : g[x].parent \in {t} \cup new => x \in new
    <3>1. \A x \in D : g[x].parent \notin {t} \cup new
      <4>1. \A x \in D : h[x].parent # t /\ h[x].parent \in D \cup {Null}
        BY <1>10 DEF Forest, Parents
      <4>2. \A x \in D \cup {Null} : x \notin new
        BY <1>10
      <4> QED
        BY <1>9, <4>1, <4>2
    <3> QED
      BY <3>1
  <2>3. Below(g, t) \subseteq new
    <3>1. new \in SUBSET DOMAIN g
      BY <1>6
    <3> HIDE DEF new
    <3> QED
      BY <1>6, <2>1, <2>2, <3>1 DEF IsBelow
  <2> QED
    BY <1>10, <2>3
<1> QED
  BY <1>20, <1>21 DEF g, l

\* A node that holds what another one does, or what is carried over of it.
Carries(x, y) == x.type = y.type /\ x.attrs \in {y.attrs, Carried(y)}

\* A clone is a tree apart from the nodes there were.
Cloned(g, l, h, k, c) ==
    /\ Forest(g, l) /\ c \in DOMAIN g \ DOMAIN h /\ g[c].parent = Null
    /\ \A j \in DOMAIN h : /\ j \in DOMAIN g /\ g[j] = h[j] /\ l[j] = k[j]
                           /\ j \notin {c} \cup Below(g, c)
    /\ \A x \in DOMAIN g : \E y \in DOMAIN h : Carries(g[x], h[y])

\* Clone makes such a tree.
LEMMA CloneForest ==
    ASSUME NEW h, NEW k, NEW i \in DOMAIN h, NEW m \in Placings(h, i, Unused(h)), Forest(h, k)
    PROVE  Cloned(Clone(h, i, m), CopyKids(k, m), h, k, m[i])
<1> DEFINE D == DOMAIN h
           B == Below(h, i)
           t == m[i]
           n == CloneNode(h[i])
           h1 == New(h, t, n)
           k1 == New(k, t, <<>>)
           g == CopyTo(h1, i, m)
           l == CopyKids(k1, m)
<1>1. /\ DOMAIN m = {i} \cup B /\ t \in Unused(h) /\ \A j \in B : m[j] \in Unused(h)
      /\ \A x, y \in DOMAIN m : m[x] = m[y] => x = y
      /\ \A x \in DOMAIN m : m[x] \in Places
  BY DEF Placings
<1>2. B \in SUBSET D /\ i \notin B /\ Null \notin D /\ DOMAIN k = D
  BY BelowIs, NotBelowItself, NullIsNoPlace DEF IsBelow, Forest, Rows
<1>3. t \in Places /\ t \notin D /\ t # Null
  BY <1>1, XmlLinksAssumption DEF Unused, Places, Null
<1>4. /\ DOMAIN n = Fields /\ n.parent = Null /\ n.firstChild = Null /\ n.lastChild = Null
      /\ n.type = h[i].type /\ n.attrs = Carried(h[i])
  BY CloneNodeIs
<1> HIDE DEF n, t
<1>5. Forest(h1, k1)
  BY <1>1, <1>4, NewForest
<1>6. /\ DOMAIN h1 = D \cup {t} /\ h1[t] = n /\ \A j \in D : h1[j] = h[j]
      /\ DOMAIN k1 = D \cup {t} /\ \A j \in D : k1[j] = k[j]
  BY <1>2, <1>3 DEF New
<1> HIDE DEF h1, k1
<1>7. Below(h1, i) = B
  <2>1. D \subseteq DOMAIN h1 /\ h1[i] = h[i] /\ \A j \in B : h1[j] = h[j]
    BY <1>2, <1>6
  <2> QED
    BY <2>1, BelowSame
<1>8. Placed(h1, i, m)
  <2>1. \A j \in B : m[j] \in Places \ DOMAIN h1
    BY <1>1, <1>2, <1>6 DEF Unused, t
  <2>2. \A j \in DOMAIN h1 : h1[j].parent # t
    <3>1. \A j \in D : h[j].parent \in D \cup {Null}
      BY DEF Forest, Parents
    <3> QED
      BY <1>3, <1>4, <1>6, <3>1
  <2>3. t = m[i] /\ t \in DOMAIN h1
    BY <1>6 DEF t
  <2> HIDE DEF B
  <2> QED
    BY <1>1, <1>7, <2>1, <2>2, <2>3 DEF Placed
<1> HIDE DEF g, l
<1>9. i \in DOMAIN h1
  BY <1>6
<1>10. Forest(g, l) /\ Below(g, t) \cap DOMAIN h1 = {}
  BY <1>5, <1>8, <1>9, CopyForest DEF g, l, t
<1>11. Copied(g, l, h1, k1, i, m)
  BY <1>5, <1>8, <1>9, CopyFacts DEF g, l
<1>12. /\ DOMAIN g = DOMAIN h1 \cup {m[j] : j \in B}
       /\ \A j \in DOMAIN h1 \ {t} : g[j] = h1[j] /\ l[j] = k1[j]
       /\ g[t].parent = h1[t].parent /\ g[t].type = h1[t].type /\ g[t].attrs = h1[t].attrs
       /\ \A j \in B : g[m[j]].type = h1[j].type /\ g[m[j]].attrs = Carried(h1[j])
  BY <1>7, <1>11 DEF Copied, Images, t
<1>13. ASSUME NEW x \in DOMAIN g
       PROVE  \E y \in D : Carries(g[x], h[y])
  <2>1. CASE x = t
    BY <1>4, <1>6, <1>12, <2>1 DEF Carries
  <2>2. CASE x \in D
    BY <1>3, <1>6, <1>12, <2>2 DEF Carries
  <2>3. CASE x \in {m[j] : j \in B}
    BY <1>2, <1>6, <1>12, <2>3 DEF Carries
  <2> QED
    BY <1>6, <1>12, <2>1, <2>2, <2>3
<1>14. l = CopyKids(k, m)
  <2>1. DOMAIN k1 \cup Range(m) = DOMAIN k \cup Range(m)
    BY <1>2, <1>6, <1>1 DEF Range, t
  <2>2. ASSUME NEW j \in Range(m) PROVE k1[Original(m, j)] = k[Original(m, j)]
    <3>1. Original(m, j) \in DOMAIN m
      BY DEF Original, Range
    <3> QED
      BY <1>1, <1>2, <1>6, <3>1
  <2>3. ASSUME NEW j \in DOMAIN k \cup Range(m), j \notin Range(m) PROVE k1[j] = k[j]
    BY <1>2, <1>6, <2>3
  <2> QED
    BY <2>1, <2>2, <2>3 DEF CopyKids, l
<1>15. g = Clone(h, i, m)
  BY DEF g, h1, n, t, Clone
<1>16. /\ t \in DOMAIN g \ D /\ g[t].parent = Null
       /\ \A j \in D : j \in DOMAIN g /\ g[j] = h[j] /\ l[j] = k[j] /\ j \notin {t} \cup Below(g, t)
  BY <1>3, <1>4, <1>6, <1>10, <1>12
<1>17. Cloned(g, l, h, k, t)
  BY <1>10, <1>13, <1>16 DEF Cloned
<1> QED
  BY <1>14, <1>15, <1>17 DEF t

-----------------------------------------------------------------------------
\* An element's attributes stay a sequence with distinct names.
Attributed(attrs) == attrs \in Seq(Range(attrs)) /\ NamesOnce(attrs)

\* A sequence is one of its own entries.
LEMMA InItsRange == ASSUME NEW S, NEW q \in Seq(S) PROVE q \in Seq(Range(q))
<1>1. Len(q) \in Nat /\ DOMAIN q = 1..Len(q)
  OBVIOUS
<1> DEFINE R == Range(q)
<1>2. \A n \in 1..Len(q) : q[n] \in R
  BY <1>1 DEF Range
<1> HIDE DEF R
<1>3. q \in Seq(S) /\ q \in Seq(R)
  BY <1>1, <1>2
<1> QED
  BY <1>3 DEF R

\* The place of the first attribute with a name.
LEMMA HeldFirst ==
    ASSUME NEW attrs, NEW name, attrs \in Seq(Range(attrs)), Held(attrs, name) # {}
    PROVE  Min(Held(attrs, name)) \in 1..Len(attrs) /\ attrs[Min(Held(attrs, name))][1] = name
<1>1. Len(attrs) \in Nat
  OBVIOUS
<1>2. Held(attrs, name) \in SUBSET Nat
  BY <1>1 DEF Held
<1>3. \E x \in Held(attrs, name) : \A y \in Held(attrs, name) : x <= y
  BY <1>2, LowestOf
<1>4. Min(Held(attrs, name)) \in Held(attrs, name)
  BY <1>3 DEF Min
<1> QED
  BY <1>4 DEF Held

\* SetAttribute writes over the attribute with the name or adds one.
LEMMA SetAttributeKeeps ==
    ASSUME NEW attrs, NEW a, Attributed(attrs) PROVE Attributed(SetAttribute(attrs, a))
<1> DEFINE S == Range(attrs) \cup {a}
           k == Min(Held(attrs, a[1]))
<1>1. /\ attrs \in Seq(S) /\ Len(attrs) \in Nat
      /\ \A n, l \in 1..Len(attrs) : attrs[n][1] = attrs[l][1] => n = l
  <2>1. attrs \in Seq(Range(attrs))
    BY DEF Attributed
  <2>2. Len(attrs) \in Nat /\ \A n \in 1..Len(attrs) : attrs[n] \in S
    BY <2>1
  <2>3. attrs \in Seq(S)
    BY <2>1, <2>2
  <2> QED
    BY <2>2, <2>3 DEF Attributed, NamesOnce
<1> HIDE DEF S
<1>2. a \in S
  BY DEF S
<1>3. CASE Held(attrs, a[1]) = {}
  <2> DEFINE r == Append(attrs, a)
  <2>1. /\ r \in Seq(S) /\ Len(r) = Len(attrs) + 1
        /\ \A n \in 1..Len(attrs) + 1 : r[n] = IF n <= Len(attrs) THEN attrs[n] ELSE a
    BY <1>1, <1>2
  <2>2. \A n \in 1..Len(attrs) : attrs[n][1] # a[1]
    BY <1>3 DEF Held
  <2> HIDE DEF r
  <2>3. NamesOnce(r)
    BY <1>1, <2>1, <2>2 DEF NamesOnce
  <2>4. SetAttribute(attrs, a) = r
    BY <1>3 DEF SetAttribute, r
  <2>5. r \in Seq(Range(r))
    BY <2>1, InItsRange
  <2> QED
    BY <2>3, <2>4, <2>5 DEF Attributed
<1>4. CASE Held(attrs, a[1]) # {}
  <2> DEFINE r == [attrs EXCEPT ![k] = a]
  <2>1. k \in 1..Len(attrs) /\ attrs[k][1] = a[1]
    BY <1>4, HeldFirst DEF Attributed
  <2> HIDE DEF k
  <2>2. r \in Seq(S) /\ Len(r) = Len(attrs)
        /\ \A n \in 1..Len(attrs) : r[n] = IF n = k THEN a ELSE attrs[n]
    BY <1>1, <1>2, <2>1
  <2> HIDE DEF r
  <2>3. NamesOnce(r)
    BY <1>1, <2>1, <2>2 DEF NamesOnce
  <2>4. SetAttribute(attrs, a) = r
    BY <1>4 DEF SetAttribute, r, k
  <2>5. r \in Seq(Range(r))
    BY <2>2, InItsRange
  <2> QED
    BY <2>3, <2>4, <2>5 DEF Attributed
<1> QED
  BY <1>3, <1>4

\* RemoveAttribute shortens the list and keeps the names apart.
LEMMA RemoveAttributeKeeps ==
    ASSUME NEW attrs, NEW name, Attributed(attrs) PROVE Attributed(RemoveAttribute(attrs, name))
<1> DEFINE S == Range(attrs)
           k == Min(Held(attrs, name))
           r == RemoveAt(attrs, k)
<1>1. /\ attrs \in Seq(S) /\ Len(attrs) \in Nat
      /\ \A n, l \in 1..Len(attrs) : attrs[n][1] = attrs[l][1] => n = l
  BY DEF Attributed, NamesOnce
<1>2. CASE Held(attrs, name) = {}
  BY <1>2 DEF RemoveAttribute
<1>3. CASE Held(attrs, name) # {}
  <2>1. k \in 1..Len(attrs)
    BY <1>3, HeldFirst DEF Attributed
  <2> HIDE DEF k, S
  <2>2. /\ r \in Seq(S) /\ Len(r) = Len(attrs) - 1
        /\ \A n \in 1..Len(attrs) - 1 : r[n] = IF n < k THEN attrs[n] ELSE attrs[n + 1]
    BY <1>1, <2>1, RemoveAtIs
  <2> HIDE DEF r
  <2>3. NamesOnce(r)
    <3> DEFINE Old(n) == IF n < k THEN n ELSE n + 1
    <3>1. \A n \in 1..Len(r) : Old(n) \in 1..Len(attrs) /\ r[n] = attrs[Old(n)]
      BY <1>1, <2>1, <2>2
    <3>2. \A n, l \in 1..Len(r) : Old(n) = Old(l) => n = l
      BY <1>1, <2>1, <2>2
    <3> HIDE DEF Old
    <3> QED
      BY <1>1, <3>1, <3>2 DEF NamesOnce
  <2>4. RemoveAttribute(attrs, name) = r
    BY <1>3 DEF RemoveAttribute, r, k
  <2>5. r \in Seq(Range(r))
    BY <2>2, InItsRange
  <2> QED
    BY <2>3, <2>4, <2>5 DEF Attributed
<1> QED
  BY <1>2, <1>3

-----------------------------------------------------------------------------
\* What a copy keeps of an element's attributes, the start of their sequence, has
\* none twice.
LEMMA CarriedOnce ==
    ASSUME NEW n, n.type = "element", Attributed(n.attrs) PROVE Attributed(Carried(n))
<1> DEFINE attrs == n.attrs
           ends == {k \in 2..Len(attrs) : attrs[k] = <<<<>>, <<>>>>}
<1>1. Carried(n) = Visited(attrs)
  BY DEF Carried
<1>2. attrs \in Seq(Range(attrs)) /\ NamesOnce(attrs)
  BY DEF Attributed
<1> HIDE DEF attrs
<1>3. Len(attrs) \in Nat
  BY <1>2
<1>4. CASE ends = {}
  BY <1>1, <1>2, <1>4 DEF Visited, Attributed
<1>5. CASE ends # {}
  <2>1. Min(ends) \in ends
    <3>1. ends \in SUBSET Nat
      BY <1>3
    <3> QED
      BY <1>5, <3>1, LowestOf DEF Min
  <2> DEFINE m == Min(ends) - 1
             q == SubSeq(attrs, 1, m)
  <2>2. m \in 0..Len(attrs) /\ Visited(attrs) = q
    <3>1. Visited(attrs) = IF ends = {} THEN attrs ELSE q
      BY DEF Visited
    <3>2. Min(ends) \in 2..Len(attrs)
      BY <2>1
    <3> HIDE DEF ends
    <3> QED
      BY <1>3, <1>5, <3>1, <3>2
  <2> HIDE DEF m
  <2>3. q \in Seq(Range(attrs)) /\ Len(q) = m /\ \A k \in 1..m : q[k] = attrs[k]
    BY <1>2, <2>2, SubSeqProperties
  <2> HIDE DEF q
  <2>4. NamesOnce(q)
    <3>1. \A k, l \in 1..m : k \in 1..Len(attrs) /\ l \in 1..Len(attrs)
      BY <1>3, <2>2
    <3> QED
      BY <1>2, <2>3, <3>1 DEF NamesOnce
  <2> QED
    BY <1>1, <2>2, <2>3, <2>4, InItsRange DEF Attributed
<1> QED
  BY <1>4, <1>5

\* The inductive invariant: the links form trees with the rows in kids, the
\* document is a root, and elements have their attributes once.
AttributesOnce(h) == \A i \in DOMAIN h : h[i].type = "element" => Attributed(h[i].attrs)
DocIsRoot(h) == Doc \in DOMAIN h /\ h[Doc].parent = Null
LinksInvariant == Forest(heap, kids) /\ DocIsRoot(heap) /\ AttributesOnce(heap)

\* A call that keeps what nodes hold keeps the document and the attributes.
LEMMA KeepsInvariant ==
    ASSUME NEW h, NEW g, NEW i, Keeps(g, h, i), i # Doc, DocIsRoot(h), AttributesOnce(h)
    PROVE  DocIsRoot(g) /\ AttributesOnce(g)
<1>1. DocIsRoot(g)
  BY DEF Keeps, DocIsRoot
<1>2. AttributesOnce(g)
  BY DEF Keeps, AttributesOnce
<1> QED
  BY <1>1, <1>2

\* So does a clone.
LEMMA ClonedInvariant ==
    ASSUME NEW g, NEW l, NEW h, NEW k, NEW c, Cloned(g, l, h, k, c), DocIsRoot(h), AttributesOnce(h)
    PROVE  c # Doc /\ DocIsRoot(g) /\ AttributesOnce(g)
<1>1. c # Doc /\ DocIsRoot(g)
  BY DEF Cloned, DocIsRoot
<1>2. AttributesOnce(g)
  <2>1. ASSUME NEW x \in DOMAIN g, g[x].type = "element" PROVE Attributed(g[x].attrs)
    <3>1. PICK y \in DOMAIN h : Carries(g[x], h[y])
      BY DEF Cloned
    <3> QED
      BY <2>1, <3>1, CarriedOnce DEF Carries, AttributesOnce
  <2> QED
    BY <2>1 DEF AttributesOnce
<1> QED
  BY <1>1, <1>2

\* The document is a node.
LEMMA NullIsNotDoc == Null # Doc
  BY DEF Null, Doc

\* The document alone is a forest.
LEMMA LinksInit == XmlBuildInit => LinksInvariant
<1> SUFFICES ASSUME XmlBuildInit PROVE LinksInvariant
  OBVIOUS
<1> DEFINE n == NodeOf([type |-> "document", value |-> <<>>, attrs |-> <<>>])
<1>1. /\ DOMAIN n = Fields /\ n.parent = Null /\ n.firstChild = Null /\ n.lastChild = Null
      /\ n.type = "document"
  BY NodeOfIs
<1> HIDE DEF n
<1>2. DOMAIN heap = {Doc} /\ heap[Doc] = n /\ DOMAIN kids = {Doc} /\ kids[Doc] = <<>>
  BY DEF XmlBuildInit, n
<1>3. IsHeap(heap)
  BY <1>1, <1>2, XmlLinksAssumption DEF IsHeap, Places, Doc
<1>4. Rows(heap, kids)
  BY <1>1, <1>2 DEF Rows, Row, EntryOr0
<1>5. Parents(heap, kids) /\ Grounded(heap)
  BY <1>1, <1>2 DEF Parents, Grounded
<1>6. DocIsRoot(heap) /\ AttributesOnce(heap)
  BY <1>1, <1>2 DEF DocIsRoot, AttributesOnce
<1> QED
  BY <1>3, <1>4, <1>5, <1>6 DEF LinksInvariant, Forest

\* Each call keeps it.
LEMMA NewNodeKeeps ==
    ASSUME LinksInvariant, NEW n \in Contents, NewNode(n) PROVE LinksInvariant'
<1> DEFINE at == CHOOSE at \in Unused(heap) : TRUE
           x == NodeOf(n)
<1>1. heap' = New(heap, at, x) /\ kids' = New(kids, at, <<>>) /\ Unused(heap) # {}
  BY DEF NewNode
<1>2. at \in Unused(heap)
  BY <1>1
<1> HIDE DEF at
<1>3. /\ DOMAIN x = Fields /\ x.parent = Null /\ x.firstChild = Null /\ x.lastChild = Null
      /\ x.type = n.type /\ x.attrs = n.attrs
  BY NodeOfIs
<1> HIDE DEF x
<1>4. Forest(heap', kids')
  BY <1>1, <1>2, <1>3, NewForest DEF LinksInvariant
<1>5. at \notin DOMAIN heap
  BY <1>2 DEF Unused
<1>6. /\ DOMAIN heap' = DOMAIN heap \cup {at} /\ heap'[at] = x
      /\ \A j \in DOMAIN heap : heap'[j] = heap[j]
  BY <1>1, <1>5 DEF New
<1>7. DocIsRoot(heap')
  BY <1>6 DEF LinksInvariant, DocIsRoot
<1>8. n.type = "element" => Attributed(n.attrs)
  BY XmlBuildAssumption DEF Attributed
<1>9. AttributesOnce(heap')
  BY <1>3, <1>6, <1>8 DEF LinksInvariant, AttributesOnce
<1> QED
  BY <1>4, <1>7, <1>9 DEF LinksInvariant

\* delete of a root.
LEMMA DeleteNodeKeeps ==
    ASSUME LinksInvariant, NEW i \in Nodes, DeleteNode(i) PROVE LinksInvariant'
<1>1. i \in DOMAIN heap /\ heap[i].parent = Null /\ i # Doc
  BY DEF DeleteNode, Roots, Nodes
<1>2. Forest(heap', kids') /\ Keeps(heap', heap, i)
  BY <1>1, DeleteForest DEF DeleteNode, LinksInvariant
<1> QED
  BY <1>1, <1>2, KeepsInvariant DEF LinksInvariant

\* LinkEndChild puts a root that is not above p last in p's row.
LEMMA LinkEndChildKeeps ==
    ASSUME LinksInvariant, NEW p \in Nodes, NEW i \in Nodes, LinkEndChild(p, i)
    PROVE  LinksInvariant'
<1>1. /\ p \in DOMAIN heap /\ i \in DOMAIN heap /\ heap[i].parent = Null /\ i # Doc
      /\ p \notin {i} \cup Below(heap, i)
  BY DEF LinkEndChild, Loose, Roots, Nodes
<1>2. Forest(heap', kids') /\ Keeps(heap', heap, i)
  BY <1>1, LinkForest DEF LinkEndChild, LinksInvariant
<1> QED
  BY <1>1, <1>2, KeepsInvariant DEF LinksInvariant

\* What the calls that insert a clone begin with.
LEMMA ClonedFacts ==
    ASSUME LinksInvariant, NEW p \in Nodes, NEW i \in Nodes, CanClone(i)
    PROVE  LET g == Clone(heap, i, Placing(i))
               l == CopyKids(kids, Placing(i))
               c == Placing(i)[i]
           IN  /\ Forest(g, l) /\ DocIsRoot(g) /\ AttributesOnce(g)
               /\ c \in DOMAIN g /\ c # Doc /\ g[c].parent = Null
               /\ p \in DOMAIN g /\ p \notin {c} \cup Below(g, c)
               /\ l[p] = kids[p]
<1> DEFINE m == Placing(i)
           g == Clone(heap, i, m)
           l == CopyKids(kids, m)
           c == m[i]
<1>1. m \in Placings(heap, i, Unused(heap))
  BY DEF CanClone, Placing
<1> HIDE DEF m
<1>2. Cloned(g, l, heap, kids, c)
  BY <1>1, CloneForest DEF LinksInvariant, Nodes
<1> HIDE DEF g, l, c
<1>3. c # Doc /\ DocIsRoot(g) /\ AttributesOnce(g)
  BY <1>2, ClonedInvariant DEF LinksInvariant
<1>4. /\ Forest(g, l) /\ c \in DOMAIN g /\ g[c].parent = Null
      /\ p \in DOMAIN g /\ p \notin {c} \cup Below(g, c) /\ l[p] = kids[p]
  BY <1>2 DEF Cloned, Nodes
<1> QED
  BY <1>3, <1>4 DEF g, l, c, m

\* A child is in its parent's row.
LEMMA PositionIs ==
    ASSUME LinksInvariant, NEW p \in Nodes, NEW c \in Nodes, heap[c].parent = p
    PROVE  Position(p, c) \in 1..Len(kids[p]) /\ kids[p][Position(p, c)] = c
<1>1. p # Null
  BY NullIsNoPlace DEF LinksInvariant, Forest, Nodes
<1>2. \E n \in 1..Len(kids[p]) : kids[p][n] = c
  BY <1>1 DEF LinksInvariant, Forest, Parents, Nodes
<1> QED
  BY <1>2 DEF Position

\* InsertEndChild links a clone last.
LEMMA InsertEndChildKeeps ==
    ASSUME LinksInvariant, NEW p \in Nodes, NEW i \in Nodes, InsertEndChild(p, i)
    PROVE  LinksInvariant'
<1> DEFINE g == Clone(heap, i, Placing(i))
           l == CopyKids(kids, Placing(i))
           c == Placing(i)[i]
<1>1. CanClone(i) /\ heap' = Link(g, p, c) /\ kids' = [l EXCEPT ![p] = Append(@, c)]
  BY DEF InsertEndChild
<1>2. /\ Forest(g, l) /\ DocIsRoot(g) /\ AttributesOnce(g)
      /\ c \in DOMAIN g /\ c # Doc /\ g[c].parent = Null
      /\ p \in DOMAIN g /\ p \notin {c} \cup Below(g, c)
  BY <1>1, ClonedFacts
<1> HIDE DEF g, l, c
<1>3. Forest(heap', kids') /\ Keeps(heap', g, c)
  BY <1>1, <1>2, LinkForest
<1> QED
  BY <1>2, <1>3, KeepsInvariant DEF LinksInvariant

\* InsertBeforeChild links a clone before b.
LEMMA InsertBeforeChildKeeps ==
    ASSUME LinksInvariant, NEW p \in Nodes, NEW b \in Nodes, NEW i \in Nodes,
           InsertBeforeChild(p, b, i)
    PROVE  LinksInvariant'
<1> DEFINE g == Clone(heap, i, Placing(i))
           l == CopyKids(kids, Placing(i))
           c == Placing(i)[i]
           n == Position(p, b)
<1>1. /\ CanClone(i) /\ heap[b].parent = p
      /\ heap' = InsertedBefore(g, p, b, c) /\ kids' = [l EXCEPT ![p] = InsertAt(@, n, c)]
  BY DEF InsertBeforeChild
<1>2. /\ Forest(g, l) /\ DocIsRoot(g) /\ AttributesOnce(g)
      /\ c \in DOMAIN g /\ c # Doc /\ g[c].parent = Null
      /\ p \in DOMAIN g /\ p \notin {c} \cup Below(g, c) /\ l[p] = kids[p]
  BY <1>1, ClonedFacts
<1>3. n \in 1..Len(kids[p]) /\ kids[p][n] = b
  BY <1>1, PositionIs
<1> HIDE DEF g, l, c, n
<1>4. n \in 1..Len(l[p]) /\ heap' = InsertedBefore(g, p, l[p][n], c)
  BY <1>1, <1>2, <1>3
<1>5. /\ Forest(InsertedBefore(g, p, l[p][n], c), [l EXCEPT ![p] = InsertAt(@, n, c)])
      /\ Keeps(InsertedBefore(g, p, l[p][n], c), g, c)
  BY <1>2, <1>4, InsertedBeforeForest
<1>6. Forest(heap', kids') /\ Keeps(heap', g, c)
  BY <1>1, <1>4, <1>5, Zenon
<1> QED
  BY <1>2, <1>6, KeepsInvariant DEF LinksInvariant

\* InsertAfterChild links a clone after b.
LEMMA InsertAfterChildKeeps ==
    ASSUME LinksInvariant, NEW p \in Nodes, NEW b \in Nodes, NEW i \in Nodes,
           InsertAfterChild(p, b, i)
    PROVE  LinksInvariant'
<1> DEFINE g == Clone(heap, i, Placing(i))
           l == CopyKids(kids, Placing(i))
           c == Placing(i)[i]
           n == Position(p, b)
<1>1. /\ CanClone(i) /\ heap[b].parent = p
      /\ heap' = InsertedAfter(g, p, b, c) /\ kids' = [l EXCEPT ![p] = InsertAt(@, n + 1, c)]
  BY DEF InsertAfterChild
<1>2. /\ Forest(g, l) /\ DocIsRoot(g) /\ AttributesOnce(g)
      /\ c \in DOMAIN g /\ c # Doc /\ g[c].parent = Null
      /\ p \in DOMAIN g /\ p \notin {c} \cup Below(g, c) /\ l[p] = kids[p]
  BY <1>1, ClonedFacts
<1>3. n \in 1..Len(kids[p]) /\ kids[p][n] = b
  BY <1>1, PositionIs
<1> HIDE DEF g, l, c, n
<1>4. n \in 1..Len(l[p]) /\ heap' = InsertedAfter(g, p, l[p][n], c)
  BY <1>1, <1>2, <1>3
<1>5. /\ Forest(InsertedAfter(g, p, l[p][n], c), [l EXCEPT ![p] = InsertAt(@, n + 1, c)])
      /\ Keeps(InsertedAfter(g, p, l[p][n], c), g, c)
  BY <1>2, <1>4, InsertedAfterForest
<1>6. Forest(heap', kids') /\ Keeps(heap', g, c)
  BY <1>1, <1>4, <1>5, Zenon
<1> QED
  BY <1>2, <1>6, KeepsInvariant DEF LinksInvariant

\* ReplaceChild links a clone in b's place and deletes b, which may hold the
\* original: the clone is made before.
LEMMA ReplaceChildKeeps ==
    ASSUME LinksInvariant, NEW p \in Nodes, NEW b \in Nodes, NEW i \in Nodes, ReplaceChild(p, b, i)
    PROVE  LinksInvariant'
<1> DEFINE m == Placing(i)
           g == Clone(heap, i, m)
           l == CopyKids(kids, m)
           c == m[i]
           n == Position(p, b)
           B == Below(heap, b)
           known == [l EXCEPT ![p] = [@ EXCEPT ![n] = c]]
<1>1. /\ CanClone(i) /\ heap[b].parent = p
      /\ heap' = Exchange(g, p, b, c) /\ kids' = Without(known, {b} \cup B)
  BY DEF ReplaceChild
<1>2. /\ Forest(g, l) /\ DocIsRoot(g) /\ AttributesOnce(g)
      /\ c \in DOMAIN g /\ c # Doc /\ g[c].parent = Null
      /\ p \in DOMAIN g /\ p \notin {c} \cup Below(g, c) /\ l[p] = kids[p]
  BY <1>1, ClonedFacts
<1>3. n \in 1..Len(kids[p]) /\ kids[p][n] = b
  BY <1>1, PositionIs
<1>4. \A j \in Nodes : j \in DOMAIN g /\ g[j] = heap[j]
  <2>1. m \in Placings(heap, i, Unused(heap))
    BY <1>1 DEF CanClone, Placing
  <2> HIDE DEF m
  <2>2. Cloned(g, l, heap, kids, c)
    BY <2>1, CloneForest DEF LinksInvariant, Nodes
  <2> QED
    BY <2>2 DEF Cloned, Nodes
<1>5. Below(g, b) = B
  <2>1. B \in SUBSET DOMAIN heap
    BY BelowIs DEF LinksInvariant, IsBelow, Nodes
  <2>2. g[b].firstChild = heap[b].firstChild /\ DOMAIN heap \subseteq DOMAIN g
    BY <1>4 DEF Nodes
  <2>3. \A j \in B : g[j].firstChild = heap[j].firstChild /\ g[j].next = heap[j].next
    BY <1>4, <2>1 DEF Nodes
  <2> HIDE DEF g
  <2> QED
    BY <2>2, <2>3, BelowSame DEF LinksInvariant, Nodes
<1> HIDE DEF g, l, c, n
<1>6. n \in 1..Len(l[p]) /\ l[p][n] = b
  BY <1>2, <1>3
<1>7. /\ Forest(Exchange(g, p, l[p][n], c), Without(known, {l[p][n]} \cup Below(g, l[p][n])))
      /\ Keeps(Exchange(g, p, l[p][n], c), g, c)
  BY <1>2, <1>6, ExchangeForest
<1> HIDE DEF known, B
<1>8. Forest(heap', kids') /\ Keeps(heap', g, c)
  BY <1>1, <1>5, <1>6, <1>7, Zenon
<1> QED
  BY <1>2, <1>8, KeepsInvariant DEF LinksInvariant

\* RemoveChild unlinks b and deletes it.
LEMMA RemoveChildKeeps ==
    ASSUME LinksInvariant, NEW p \in Nodes, NEW b \in Nodes, RemoveChild(p, b)
    PROVE  LinksInvariant'
<1> DEFINE n == Position(p, b)
           B == Below(heap, b)
           known == [kids EXCEPT ![p] = RemoveAt(@, n)]
<1>1. /\ heap[b].parent = p
      /\ heap' = Unlink(heap, p, b) /\ kids' = Without(known, {b} \cup B)
  BY DEF RemoveChild
<1>2. n \in 1..Len(kids[p]) /\ kids[p][n] = b
  BY <1>1, PositionIs
<1> HIDE DEF n
<1>3. /\ Forest(Unlink(heap, p, kids[p][n]),
                Without(known, {kids[p][n]} \cup Below(heap, kids[p][n])))
      /\ Keeps(Unlink(heap, p, kids[p][n]), heap, Null)
  BY <1>2, UnlinkForest DEF LinksInvariant, Nodes
<1> HIDE DEF known
<1>4. Forest(heap', kids') /\ Keeps(heap', heap, Null)
  BY <1>1, <1>2, <1>3, Zenon
<1> QED
  BY <1>4, KeepsInvariant, NullIsNotDoc DEF LinksInvariant

\* Clear deletes what is below p.
LEMMA ClearChildrenKeeps ==
    ASSUME LinksInvariant, NEW p \in Nodes, ClearChildren(p) PROVE LinksInvariant'
<1>1. heap' = ClearNode(heap, p) /\ kids' = ClearedKids(p)
  BY DEF ClearChildren
<1>2. Forest(ClearNode(heap, p), ClearedKids(p)) /\ Keeps(ClearNode(heap, p), heap, Null)
  BY ClearForest DEF LinksInvariant, Nodes, ClearedKids
<1> QED
  BY <1>1, <1>2, KeepsInvariant, NullIsNotDoc DEF LinksInvariant

\* What a node holds is changed.
HoldsInstead(g, h, i, type, attrs) ==
    /\ IsHeap(g) /\ DOMAIN g = DOMAIN h
    /\ \A j \in DOMAIN h : /\ g[j].parent = h[j].parent
                           /\ g[j].firstChild = h[j].firstChild
                           /\ g[j].lastChild = h[j].lastChild
                           /\ g[j].next = h[j].next /\ g[j].prev = h[j].prev
    /\ \A j \in DOMAIN h \ {i} : g[j].type = h[j].type /\ g[j].attrs = h[j].attrs
    /\ g[i].type = type /\ g[i].attrs = attrs

\* Other contents leave the links, and other attributes must be in order.
LEMMA HoldsInvariant ==
    ASSUME NEW h, NEW k, NEW g, NEW i \in DOMAIN h, NEW type, NEW attrs, Forest(h, k), DocIsRoot(h),
           AttributesOnce(h), HoldsInstead(g, h, i, type, attrs),
           type = "element" => Attributed(attrs)
    PROVE  Forest(g, k) /\ DocIsRoot(g) /\ AttributesOnce(g)
<1>1. Forest(g, k)
  BY SameForest DEF HoldsInstead
<1>2. DocIsRoot(g) /\ AttributesOnce(g)
  BY DEF HoldsInstead, DocIsRoot, AttributesOnce
<1> QED
  BY <1>1, <1>2

\* A write of one field of a node.
LEMMA SetFieldIs ==
    ASSUME NEW h, NEW i \in DOMAIN h, NEW to, IsHeap(h)
    PROVE  /\ HoldsInstead([h EXCEPT ![i].value = to], h, i, h[i].type, h[i].attrs)
           /\ HoldsInstead([h EXCEPT ![i].attrs = to], h, i, h[i].type, to)
<1> DEFINE n == [h[i] EXCEPT !.value = to]
           x == [h[i] EXCEPT !.attrs = to]
<1>1. DOMAIN h[i] = Fields /\ \A j \in DOMAIN h : DOMAIN h[j] = Fields
  BY DEF IsHeap
<1>2. /\ DOMAIN n = Fields /\ n.type = h[i].type /\ n.attrs = h[i].attrs
      /\ n.parent = h[i].parent /\ n.firstChild = h[i].firstChild /\ n.lastChild = h[i].lastChild
      /\ n.next = h[i].next /\ n.prev = h[i].prev
  BY <1>1 DEF Fields
<1>3. /\ DOMAIN x = Fields /\ x.type = h[i].type /\ x.attrs = to
      /\ x.parent = h[i].parent /\ x.firstChild = h[i].firstChild /\ x.lastChild = h[i].lastChild
      /\ x.next = h[i].next /\ x.prev = h[i].prev
  BY <1>1 DEF Fields
<1> HIDE DEF n, x
<1>4. ASSUME NEW y, DOMAIN y = Fields
      PROVE  /\ IsHeap([h EXCEPT ![i] = y]) /\ DOMAIN [h EXCEPT ![i] = y] = DOMAIN h
             /\ \A j \in DOMAIN h : [h EXCEPT ![i] = y][j] = IF j = i THEN y ELSE h[j]
  BY <1>1, <1>4 DEF IsHeap
<1>5. HoldsInstead([h EXCEPT ![i] = n], h, i, h[i].type, h[i].attrs)
  BY <1>2, <1>4 DEF HoldsInstead
<1>6. HoldsInstead([h EXCEPT ![i] = x], h, i, h[i].type, to)
  BY <1>3, <1>4 DEF HoldsInstead
<1> QED
  BY <1>5, <1>6 DEF n, x

\* SetValue.
LEMMA SetValueOfKeeps ==
    ASSUME LinksInvariant, NEW i \in Nodes, NEW value, SetValueOf(i, value) PROVE LinksInvariant'
<1>1. heap' = [heap EXCEPT ![i].value = value] /\ kids' = kids /\ i \in DOMAIN heap
  BY DEF SetValueOf, Nodes
<1>2. HoldsInstead(heap', heap, i, heap[i].type, heap[i].attrs)
  BY <1>1, SetFieldIs DEF LinksInvariant, Forest
<1>3. heap[i].type = "element" => Attributed(heap[i].attrs)
  BY <1>1 DEF LinksInvariant, AttributesOnce
<1> QED
  BY <1>1, <1>2, <1>3, HoldsInvariant DEF LinksInvariant

\* SetAttribute.
LEMMA SetAttributeOfKeeps ==
    ASSUME LinksInvariant, NEW i \in Nodes, NEW a, SetAttributeOf(i, a) PROVE LinksInvariant'
<1> DEFINE to == SetAttribute(heap[i].attrs, a)
<1>1. /\ heap' = [heap EXCEPT ![i].attrs = to] /\ kids' = kids /\ i \in DOMAIN heap
      /\ heap[i].type = "element"
  BY DEF SetAttributeOf, Nodes
<1>2. Attributed(to)
  BY <1>1, SetAttributeKeeps DEF LinksInvariant, AttributesOnce
<1> HIDE DEF to
<1>3. HoldsInstead(heap', heap, i, heap[i].type, to)
  BY <1>1, SetFieldIs DEF LinksInvariant, Forest
<1> QED
  BY <1>1, <1>2, <1>3, HoldsInvariant DEF LinksInvariant

\* RemoveAttribute.
LEMMA RemoveAttributeOfKeeps ==
    ASSUME LinksInvariant, NEW i \in Nodes, NEW name, RemoveAttributeOf(i, name)
    PROVE  LinksInvariant'
<1> DEFINE to == RemoveAttribute(heap[i].attrs, name)
<1>1. /\ heap' = [heap EXCEPT ![i].attrs = to] /\ kids' = kids /\ i \in DOMAIN heap
      /\ heap[i].type = "element"
  BY DEF RemoveAttributeOf, Nodes
<1>2. Attributed(to)
  BY <1>1, RemoveAttributeKeeps DEF LinksInvariant, AttributesOnce
<1> HIDE DEF to
<1>3. HoldsInstead(heap', heap, i, heap[i].type, to)
  BY <1>1, SetFieldIs DEF LinksInvariant, Forest
<1> QED
  BY <1>1, <1>2, <1>3, HoldsInvariant DEF LinksInvariant

\* An assignment gives a node what another holds and copies below it what is
\* below that one.
LEMMA SetBothIs ==
    ASSUME NEW h, NEW i \in DOMAIN h, NEW value, NEW attrs, IsHeap(h)
    PROVE  HoldsInstead([h EXCEPT ![i] = [@ EXCEPT !.value = value, !.attrs = attrs]],
                        h, i, h[i].type, attrs)
<1> DEFINE n == [h[i] EXCEPT !.value = value, !.attrs = attrs]
           g == [h EXCEPT ![i] = n]
<1>1. DOMAIN h[i] = Fields /\ \A j \in DOMAIN h : DOMAIN h[j] = Fields
  BY DEF IsHeap
<1>2. /\ DOMAIN n = Fields /\ n.type = h[i].type /\ n.attrs = attrs
      /\ n.parent = h[i].parent /\ n.firstChild = h[i].firstChild /\ n.lastChild = h[i].lastChild
      /\ n.next = h[i].next /\ n.prev = h[i].prev
  BY <1>1 DEF Fields
<1> HIDE DEF n
<1>3. DOMAIN g = DOMAIN h /\ \A j \in DOMAIN h : g[j] = IF j = i THEN n ELSE h[j]
  OBVIOUS
<1> HIDE DEF g
<1>4. IsHeap(g)
  BY <1>1, <1>2, <1>3 DEF IsHeap
<1>5. HoldsInstead(g, h, i, h[i].type, attrs)
  BY <1>2, <1>3, <1>4 DEF HoldsInstead
<1> QED
  BY <1>5 DEF g, n

\* A copy keeps the document, and its attributes are the original's.
LEMMA CopiedInvariant ==
    ASSUME NEW h, NEW k, NEW g, NEW l, NEW from \in DOMAIN h, NEW m, Forest(h, k),
           Placed(h, from, m), Copied(g, l, h, k, from, m), DocIsRoot(h), AttributesOnce(h)
    PROVE  DocIsRoot(g) /\ AttributesOnce(g)
<1> DEFINE B == Below(h, from)
           t == m[from]
<1>1. B \in SUBSET DOMAIN h
  BY BelowIs DEF IsBelow
<1>2. /\ DOMAIN g = DOMAIN h \cup {m[j] : j \in B}
      /\ \A j \in DOMAIN h \ {t} : g[j] = h[j]
      /\ g[t].parent = h[t].parent /\ g[t].type = h[t].type /\ g[t].attrs = h[t].attrs
      /\ \A j \in B : g[m[j]].type = h[j].type /\ g[m[j]].attrs = Carried(h[j])
  BY DEF Copied, Images
<1> HIDE DEF B, t
<1>3. DocIsRoot(g)
  BY <1>2 DEF DocIsRoot
<1>4. \A x \in DOMAIN g : \E y \in DOMAIN h : Carries(g[x], h[y])
  BY <1>1, <1>2 DEF Carries
<1>5. AttributesOnce(g)
  <2>1. ASSUME NEW x \in DOMAIN g, g[x].type = "element" PROVE Attributed(g[x].attrs)
    <3>1. PICK y \in DOMAIN h : Carries(g[x], h[y])
      BY <1>4
    <3> QED
      BY <2>1, <3>1, CarriedOnce DEF Carries, AttributesOnce
  <2> QED
    BY <2>1 DEF AttributesOnce
<1> QED
  BY <1>3, <1>5

\* operator= clears its target first, so that the copy is the only thing below it;
\* the source is not below the target and is still there.
LEMMA AssignNodeKeeps ==
    ASSUME LinksInvariant, NEW to \in Nodes, NEW from \in Nodes, AssignNode(to, from)
    PROVE  LinksInvariant'
<1> DEFINE cleared == ClearNode(heap, to)
           same == [cleared EXCEPT ![to] = [@ EXCEPT !.value = heap[from].value,
                                                    !.attrs = Carried(heap[from])]]
           l == ClearedKids(to)
           m == CHOOSE m \in Placings(same, from, {to}) : TRUE
<1>1. /\ to # from /\ heap[to].type = heap[from].type /\ from \notin Below(heap, to)
      /\ m \in Placings(same, from, {to})
      /\ heap' = CopyTo(same, from, m) /\ kids' = CopyKids(l, m)
  BY DEF AssignNode
<1> HIDE DEF m
<1>2. /\ Forest(cleared, l) /\ Keeps(cleared, heap, Null)
      /\ DOMAIN cleared = Nodes \ Below(heap, to) /\ to \in DOMAIN cleared
      /\ \A j \in DOMAIN cleared : cleared[j].parent = heap[j].parent
  BY ClearForest DEF LinksInvariant, Nodes, ClearedKids
<1>3. DocIsRoot(cleared) /\ AttributesOnce(cleared)
  BY <1>2, KeepsInvariant, NullIsNotDoc DEF LinksInvariant
<1> HIDE DEF cleared, l
<1>4. HoldsInstead(same, cleared, to, cleared[to].type, Carried(heap[from]))
  BY <1>2, SetBothIs DEF Forest
<1> HIDE DEF same
<1>5. cleared[to].type = "element" => Attributed(Carried(heap[from]))
  BY <1>1, <1>2, CarriedOnce DEF LinksInvariant, AttributesOnce, Keeps, Nodes
<1>6. Forest(same, l) /\ DocIsRoot(same) /\ AttributesOnce(same)
  BY <1>2, <1>3, <1>4, <1>5, HoldsInvariant
<1>7. \A j \in Nodes : j \in Below(heap, to) <=> heap[j].parent \in {to} \cup Below(heap, to)
  BY BelowIs DEF LinksInvariant, IsBelow, Nodes
<1>8. /\ DOMAIN same = Nodes \ Below(heap, to)
      /\ \A j \in DOMAIN same : same[j].parent = heap[j].parent
  BY <1>2, <1>4 DEF HoldsInstead
<1>9. from \in DOMAIN same /\ to \in DOMAIN same
  BY <1>1, <1>2, <1>8
<1>10. \A j \in DOMAIN same : same[j].parent # to
  BY <1>7, <1>8
<1>11. Placed(same, from, m)
  BY <1>1, <1>9, <1>10 DEF Placed, Placings, Unused
<1>12. Forest(heap', kids') /\ Copied(heap', kids', same, l, from, m)
  BY <1>1, <1>6, <1>9, <1>11, CopyForest, CopyFacts
<1>13. DocIsRoot(heap') /\ AttributesOnce(heap')
  BY <1>6, <1>9, <1>11, <1>12, CopiedInvariant
<1> QED
  BY <1>12, <1>13 DEF LinksInvariant

-----------------------------------------------------------------------------

\* Every call keeps the invariant.
LEMMA LinksNext == LinksInvariant /\ [XmlBuildNext]_buildXmlVars => LinksInvariant'
<1> SUFFICES ASSUME LinksInvariant, [XmlBuildNext]_buildXmlVars PROVE LinksInvariant'
  OBVIOUS
<1>1. ASSUME NEW n \in Contents, NewNode(n) PROVE LinksInvariant'
  BY <1>1, NewNodeKeeps
<1>2. ASSUME NEW i \in Nodes, DeleteNode(i) PROVE LinksInvariant'
  BY <1>2, DeleteNodeKeeps
<1>3. ASSUME NEW i \in Nodes, ClearChildren(i) PROVE LinksInvariant'
  BY <1>3, ClearChildrenKeeps
<1>4. ASSUME NEW i \in Nodes, NEW value \in Values, SetValueOf(i, value) PROVE LinksInvariant'
  BY <1>4, SetValueOfKeeps
<1>5. ASSUME NEW i \in Nodes, NEW a \in Attributes, SetAttributeOf(i, a) PROVE LinksInvariant'
  BY <1>5, SetAttributeOfKeeps
<1>6. ASSUME NEW i \in Nodes, NEW a \in Attributes, RemoveAttributeOf(i, a[1])
      PROVE  LinksInvariant'
  BY <1>6, RemoveAttributeOfKeeps
<1>7. ASSUME NEW p \in Nodes, NEW i \in Nodes, LinkEndChild(p, i) PROVE LinksInvariant'
  BY <1>7, LinkEndChildKeeps
<1>8. ASSUME NEW p \in Nodes, NEW i \in Nodes, InsertEndChild(p, i) PROVE LinksInvariant'
  BY <1>8, InsertEndChildKeeps
<1>9. ASSUME NEW p \in Nodes, NEW i \in Nodes, RemoveChild(p, i) PROVE LinksInvariant'
  BY <1>9, RemoveChildKeeps
<1>10. ASSUME NEW p \in Nodes, NEW i \in Nodes, AssignNode(p, i) PROVE LinksInvariant'
  BY <1>10, AssignNodeKeeps
<1>11. ASSUME NEW p \in Nodes, NEW c \in Nodes, NEW i \in Nodes, InsertBeforeChild(p, c, i)
       PROVE  LinksInvariant'
  BY <1>11, InsertBeforeChildKeeps
<1>12. ASSUME NEW p \in Nodes, NEW c \in Nodes, NEW i \in Nodes, InsertAfterChild(p, c, i)
       PROVE  LinksInvariant'
  BY <1>12, InsertAfterChildKeeps
<1>13. ASSUME NEW p \in Nodes, NEW c \in Nodes, NEW i \in Nodes, ReplaceChild(p, c, i)
       PROVE  LinksInvariant'
  BY <1>13, ReplaceChildKeeps
<1>14. CASE UNCHANGED buildXmlVars
  BY <1>14 DEF buildXmlVars, LinksInvariant
<1> QED
  BY <1>1, <1>2, <1>3, <1>4, <1>5, <1>6, <1>7, <1>8, <1>9, <1>10, <1>11, <1>12, <1>13, <1>14
  DEF XmlBuildNext

\* What every call keeps says what a reader expects.
LEMMA InvariantAgrees == LinksInvariant => LinksAgree
<1> SUFFICES ASSUME LinksInvariant PROVE LinksAgree
  OBVIOUS
<1> DEFINE D == DOMAIN heap
           R == {i \in D : heap[i].parent = Null}
           S == R \cup UNION {Below(heap, i) : i \in R}
<1>1. \A p \in D : Row(heap, p, kids[p]) /\ kids[p] \in Seq(D)
  BY DEF LinksInvariant, Forest, Rows
<1>2. ASSUME NEW i \in D, heap[i].parent # Null PROVE i \in Range(kids[heap[i].parent])
  <2> DEFINE p == heap[i].parent
  <2>1. PICK n \in 1..Len(kids[p]) : kids[p][n] = i
    BY <1>2 DEF LinksInvariant, Forest, Parents
  <2>2. p \in D
    BY <1>2 DEF LinksInvariant, Forest, Parents
  <2>3. kids[p] \in Seq(D) /\ n \in DOMAIN kids[p]
    BY <1>1, <2>1, <2>2
  <2> QED
    BY <2>1, <2>3 DEF Range
<1>3. \A i \in D : IsBelow(heap, i, Below(heap, i))
  BY BelowIs DEF LinksInvariant
<1>4. S = D
  <2>1. S \in SUBSET D
    BY <1>3 DEF IsBelow
  <2>2. ASSUME NEW i \in D, heap[i].parent \in S \cup {Null} PROVE i \in S
    <3>1. CASE heap[i].parent \in R
      <4>1. i \in Below(heap, heap[i].parent)
        BY <1>3, <3>1 DEF IsBelow
      <4> QED
        BY <3>1, <4>1
    <3>2. CASE \E r \in R : heap[i].parent \in Below(heap, r)
      <4>1. PICK r \in R : heap[i].parent \in Below(heap, r)
        BY <3>2
      <4>2. i \in Below(heap, r)
        BY <1>3, <4>1 DEF IsBelow
      <4> QED
        BY <4>1, <4>2
    <3>3. CASE heap[i].parent = Null
      BY <3>3
    <3> QED
      BY <2>2, <3>1, <3>2, <3>3
  <2> HIDE DEF S
  <2> QED
    BY <2>1, <2>2 DEF LinksInvariant, Forest, Grounded
<1>5. {Doc} \cup Roots = R
  BY DEF Roots, Nodes, LinksInvariant, DocIsRoot
<1>6. Nodes = {Doc} \cup Roots \cup UNION {Below(heap, i) : i \in {Doc} \cup Roots}
  BY <1>4, <1>5 DEF Nodes
<1>7. \A i \in Nodes : heap[i].type = "element" => NamesOnce(heap[i].attrs)
  BY DEF LinksInvariant, AttributesOnce, Attributed, Nodes
<1> QED
  BY <1>1, <1>2, <1>6, <1>7 DEF LinksAgree, Nodes

\* Property LinksAgree, for any number of nodes: TiXmlNode's calls (new, delete,
\* Clone, LinkEndChild, the Insert and Replace calls, RemoveChild, Clear,
\* operator=) and AttributeSet's keep the links right in both directions, every
\* node owned once, and every attribute name once.
THEOREM XmlLinksAgree == XmlBuildSpec => []LinksAgree
<1>1. XmlBuildInit => LinksInvariant
  BY LinksInit
<1>2. LinksInvariant /\ [XmlBuildNext]_buildXmlVars => LinksInvariant'
  BY LinksNext
<1>3. LinksInvariant => LinksAgree
  BY InvariantAgrees
<1> QED
  BY <1>1, <1>2, <1>3, PTL DEF XmlBuildSpec
=============================================================================
