----------------------------- MODULE JsonBuild -----------------------------
(***************************************************************************)
(* A program that builds a JSON document, one call of Json::Value at a     *)
(* time.                                                                   *)
(*                                                                         *)
(* doc is an object; its member Array is the array the calls work on, and  *)
(* list is what a reader of value.h takes that array to be: a sequence,    *)
(* grown and filled with nulls on demand.                                  *)
(***************************************************************************)
EXTENDS JsonValue

CONSTANTS Array,        \* the name of the member that is the array under test
          Names,        \* the other members' names
          Elements,     \* values that are assigned
          CommentTexts, \* texts given to setComment
          MaxLength,    \* bound: elements of list
          MaxComments   \* bound: comments in doc

VARIABLES doc,      \* the document under construction
          list,     \* the reference for doc[Array]
          aborted   \* an assertion of the library failed

buildVars == <<doc, list, aborted>>

(* What the constructors leave in a value of each type.                    *)
Constructed(v) ==
    /\ v = <<TypeOf(v), Content(v), Comments(v)>>
    /\ \/ TypeOf(v) = NullT /\ Content(v) = 0
       \/ TypeOf(v) = IntT /\ Content(v) \in minInt..maxInt
       \/ TypeOf(v) = UIntT /\ Content(v) \in 0..maxUInt
       \/ TypeOf(v) = RealT /\ Content(v) \in Int
       \/ TypeOf(v) = StringT /\ Content(v) \in Seq(1..255) \cup {NullString}
       \/ TypeOf(v) = BoolT /\ Content(v) \in BOOLEAN
       \/ TypeOf(v) \in {ArrayT, ObjectT} /\ IsFiniteSet(DOMAIN Content(v))

ASSUME BuildAssumption == /\ Array \notin Names
                          /\ \A v \in Elements : Constructed(v)
                          /\ MaxLength \in Nat /\ MaxComments \in Nat

-----------------------------------------------------------------------------
NewDocument == SetMember(null, Array, Empty(ArrayT))

BuildInit == doc = NewDocument /\ list = <<>> /\ aborted = FALSE

TheArray(v) == Content(v)[Array]
WithArray(new) == PutAt(doc, ObjectT, Array, new)
Padded(n) == [i \in 1..n |-> IF i <= Len(list) THEN list[i] ELSE null]

Append_(v) == /\ ~aborted /\ Len(list) < MaxLength
              /\ doc' = WithArray(AppendValue(TheArray(doc), v))
              /\ list' = Append(list, v)
              /\ UNCHANGED aborted

AssignElement(i, v) ==
    /\ ~aborted /\ i < MaxLength
    /\ doc' = WithArray(SetElement(TheArray(doc), i, v))
    /\ list' = [(IF i < Len(list) THEN list ELSE Padded(i + 1)) EXCEPT ![i + 1] = v]
    /\ UNCHANGED aborted

ResizeArray(n) ==
    /\ ~aborted
    /\ doc' = WithArray(Resize(TheArray(doc), n))
    /\ list' = Padded(n)
    /\ aborted' = ~ResizeAsserts(TheArray(doc), n)

ClearArray == /\ ~aborted
              /\ doc' = WithArray(Clear(TheArray(doc)))
              /\ list' = <<>>
              /\ UNCHANGED aborted

AssignMember(name, v) == /\ ~aborted
                         /\ doc' = SetMember(doc, name, v)
                         /\ UNCHANGED <<list, aborted>>

DeleteMember(name) == /\ ~aborted /\ IsMember(doc, name)
                      /\ doc' = RemoveMember(doc, name)
                      /\ UNCHANGED <<list, aborted>>

(* The values of the document a program holds references to: the document, *)
(* a member, an element of the array; and the document with one of them    *)
(* changed through its reference.                                          *)
Spots == {<<>>} \cup {<<n>> : n \in DOMAIN Content(doc)}
           \cup {<<Array, i>> : i \in DOMAIN Content(TheArray(doc))}
Referred(spot) == IF spot = <<>> THEN doc
                  ELSE IF Len(spot) = 1 THEN Content(doc)[spot[1]]
                  ELSE Content(TheArray(doc))[spot[2]]
Through(spot, new) == IF spot = <<>> THEN new
                      ELSE IF Len(spot) = 1 THEN PutAt(doc, ObjectT, spot[1], new)
                      ELSE WithArray(PutAt(TheArray(doc), ArrayT, spot[2], new))

Comment(spot, placement, text) ==
    /\ ~aborted /\ CommentOk(text)
    /\ Cardinality({s \in Spots : Comments(Referred(s)) # NoComments}) < MaxComments
    /\ doc' = Through(spot, SetComment(Referred(spot), placement, text))
    /\ UNCHANGED <<list, aborted>>

BuildNext ==
    \/ \E v \in Elements : Append_(v)
    \/ \E i \in 0..MaxLength - 1, v \in Elements : AssignElement(i, v)
    \/ \E n \in 0..MaxLength : ResizeArray(n)
    \/ ClearArray
    \/ \E name \in Names, v \in Elements : AssignMember(name, v)
    \/ \E name \in Names : DeleteMember(name)
    \/ \E spot \in Spots, placement \in Before..After, text \in CommentTexts :
          Comment(spot, placement, text)

BuildSpec == BuildInit /\ [][BuildNext]_buildVars

-----------------------------------------------------------------------------
(* Property ArrayIsList: whatever calls built it, the array reads as the   *)
(* sequence value.h describes, its size and every element to the last      *)
(* value inside it; only resize, to a size whose last index was never      *)
(* touched, fails its own assertion.                                       *)
Alike(v, w) == TypeOf(v) = TypeOf(w) /\ Content(v) = Content(w)
ArrayIsList ==
    IF aborted THEN SizeOf(TheArray(doc)) < Len(list)
    ELSE /\ SizeOf(TheArray(doc)) = Len(list)
         /\ \A i \in 1..Len(list) : Alike(Element(TheArray(doc), i), list[i])

(* Property ConversionsHonest: of every value in the document,             *)
(* isConvertibleTo says what asInt, asUInt, asDouble and asBool do, but    *)
(* for UInt(maxInt), and for asInt, which answers -1 where it should throw.*)
IsNumber(v) == TypeOf(v) \in {IntT, UIntT, RealT}
Inside == {Referred(s) : s \in Spots} \cup Elements
Honest(v) ==
    LET to == ConvertibleTo(v)
    IN  /\ IntT \in to => AsInt(v) # {} \/ Content(v) = maxInt
        /\ IntT \notin to => AsInt(v) \subseteq {-1}
        /\ UIntT \in to <=> AsUInt(v) # {}
        /\ RealT \in to <=> AsDouble(v) # {}
        /\ IntT \in to /\ UIntT \in to /\ AsInt(v) # {} => AsInt(v) = AsUInt(v)
        /\ NullT \in to <=> ~AsBool(v)
        /\ NullT \in to /\ StringT \in to /\ ~IsNumber(v) =>
              AsString(v) \subseteq {<<>>, T("false")}
ConversionsHonest == \A v \in Inside : Honest(v)
=============================================================================
