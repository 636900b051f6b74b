----------------------------- MODULE JsonValue -----------------------------
(***************************************************************************)
(* Json::Value (src/utils/json/src/json_value.cpp, built without           *)
(* JSON_VALUE_USE_INTERNAL_MAP and without CppTL): the tagged union, its   *)
(* conversions, its containers and its comments.                           *)
(*                                                                         *)
(* A value is <<type, content, comments>>.  Arrays and objects are both a  *)
(* std::map, so an array's content is a function from the indexes that     *)
(* were ever touched, not a sequence.  A real is a whole number of         *)
(* millionths (the writer prints six decimals).                            *)
(***************************************************************************)
EXTENDS Chars, FiniteSets

CONSTANT maxUInt      \* the greatest UInt: all the bits of the machine's word
ASSUME MaxUIntAssumption == maxUInt \in Nat /\ maxUInt % 2 = 1

(* enum ValueType, in its order: operator< compares the types first.       *)
NullT == 0   IntT  == 1   UIntT  == 2   RealT   == 3
StringT == 4 BoolT == 5   ArrayT == 6   ObjectT == 7

(* enum CommentPlacement.                                                  *)
Before == 0  AfterOnSameLine == 1  After == 2

maxInt  == maxUInt \div 2
minInt  == -maxInt - 1
Million == 1000000

(* The char pointer of a string value that was never given a string.       *)
NullString == <<NUL>>

NoComments == <<>>
TypeOf(v)   == v[1]
Content(v)  == v[2]
Comments(v) == v[3]

(* A std::map with x at k.                                                 *)
With(map, k, x) == [j \in DOMAIN map \cup {k} |-> IF j = k THEN x ELSE map[j]]

(* The constructors: of a type alone, and of a type with its content.      *)
Empty(t) == <<t, CASE t \in {NullT, IntT, UIntT, RealT} -> 0
                   [] t = StringT -> NullString
                   [] t = BoolT -> FALSE
                   [] t \in {ArrayT, ObjectT} -> <<>>, NoComments>>
Of(t, c) == <<t, IF t = StringT THEN CStr(c) ELSE c, NoComments>>
null == Empty(NullT)

(* operator=: a copy is swapped in, and swap leaves comments_ where it is. *)
Assign(old, new) == <<TypeOf(new), Content(new), Comments(old)>>

(* CommentInfo::setComment throws unless the text is empty or starts "/".  *)
CommentOk(text)  == CStr(text) = <<>> \/ text[1] = C("/")
SetComment(v, placement, text) ==
    <<TypeOf(v), Content(v), With(Comments(v), placement, CStr(text))>>
HasComment(v, placement) == placement \in DOMAIN Comments(v)

IsNull(v)   == TypeOf(v) = NullT
IsArray(v)  == TypeOf(v) \in {NullT, ArrayT}
IsObject(v) == TypeOf(v) \in {NullT, ObjectT}

-----------------------------------------------------------------------------
(* Conversions: the set of results, empty when the code throws.            *)
Truncate(real) == IF real >= 0 THEN real \div Million ELSE -((-real) \div Million)
BoolInt(b) == IF b THEN 1 ELSE 0

AsString(v) ==
    CASE IsNull(v) -> {<<>>}
      [] TypeOf(v) = StringT -> {IF Content(v) = NullString THEN <<>> ELSE Content(v)}
      [] TypeOf(v) = BoolT -> {IF Content(v) THEN T("true") ELSE T("false")}
      [] OTHER -> {}

AsInt(v) ==
    CASE TypeOf(v) \in {NullT, IntT} -> {Content(v)}
      [] TypeOf(v) = UIntT -> {u \in {Content(v)} : u < maxInt}
      [] TypeOf(v) = RealT ->
            {Truncate(r) : r \in {Content(v)} \cap (minInt * Million)..(maxInt * Million)}
      [] TypeOf(v) = BoolT -> {BoolInt(Content(v))}
      [] OTHER -> {-1}

AsUInt_Mutation(v) ==                   \* a negative Int is cast
    CASE TypeOf(v) \in {NullT, IntT, UIntT} -> {Content(v)}
      [] TypeOf(v) = RealT -> {Truncate(r) : r \in {Content(v)} \cap 0..(maxUInt * Million)}
      [] TypeOf(v) = BoolT -> {BoolInt(Content(v))}
      [] OTHER -> {}
AsUInt(v) ==
    CASE TypeOf(v) \in {NullT, IntT, UIntT} -> {i \in {Content(v)} : i >= 0}
      [] TypeOf(v) = RealT -> {Truncate(r) : r \in {Content(v)} \cap 0..(maxUInt * Million)}
      [] TypeOf(v) = BoolT -> {BoolInt(Content(v))}
      [] OTHER -> {}

AsDouble(v) ==
    CASE TypeOf(v) \in {NullT, IntT, UIntT} -> {Content(v) * Million}
      [] TypeOf(v) = RealT -> {Content(v)}
      [] TypeOf(v) = BoolT -> {BoolInt(Content(v)) * Million}
      [] OTHER -> {}

AsBool(v) ==
    CASE TypeOf(v) \in {NullT, IntT, UIntT, RealT} -> Content(v) # 0
      [] TypeOf(v) = BoolT -> Content(v)
      [] TypeOf(v) = StringT -> Content(v) \notin {NullString, <<>>}
      [] OTHER -> DOMAIN Content(v) # {}

(* The types isConvertibleTo answers true for.                             *)
ConvertibleTo(v) ==
    LET c == Content(v)
        Within(lo, hi, t) == IF lo <= c /\ c <= hi THEN {t} ELSE {}
        always == {RealT, StringT, BoolT}
    IN  CASE IsNull(v) -> NullT..ObjectT
          [] TypeOf(v) = IntT  -> always \cup {IntT} \cup Within(0, 0, NullT)
                                    \cup Within(0, maxInt, UIntT)
          [] TypeOf(v) = UIntT -> always \cup {UIntT} \cup Within(0, 0, NullT)
                                    \cup Within(0, maxInt, IntT)
          [] TypeOf(v) = RealT -> always \cup Within(0, 0, NullT)
                                    \cup Within(minInt * Million, maxInt * Million, IntT)
                                    \cup Within(0, maxUInt * Million, UIntT)
          [] TypeOf(v) = BoolT -> always \cup {IntT, UIntT}
                                    \cup (IF c THEN {} ELSE {NullT})
          [] OTHER -> {TypeOf(v)} \cup (IF AsBool(v) THEN {} ELSE {NullT})

-----------------------------------------------------------------------------
(* Containers.                                                             *)
SizeOf_Mutation(v) == IF IsNull(v) THEN 0 ELSE Cardinality(DOMAIN Content(v))   \* counts the entries

SizeOf(v) == CASE TypeOf(v) = ArrayT  -> Max({i + 1 : i \in DOMAIN Content(v)} \cup {0})
             [] TypeOf(v) = ObjectT -> Cardinality(DOMAIN Content(v))
             [] OTHER -> 0

IsEmpty(v) == (IsArray(v) \/ IsObject(v)) /\ SizeOf(v) = 0

Clear(v) == <<TypeOf(v), IF IsNull(v) THEN 0 ELSE <<>>, Comments(v)>>

(* "if ( type_ == nullValue ) *this = Value( t )", where operator[] starts. *)
Become(v, t) == IF IsNull(v) THEN Assign(v, Empty(t)) ELSE v

(* The non-const operator[]: the element is created null when missing.     *)
PutAt(v, t, k, new) == <<t, With(Content(Become(v, t)), k, new), Comments(v)>>
Touch(v, t, k) == IF ~IsNull(v) /\ k \in DOMAIN Content(v) THEN v ELSE PutAt(v, t, k, null)

(* The const operator[]: Value::null, whose address says "missing".        *)
Get(v, k, default) ==
    IF ~IsNull(v) /\ k \in DOMAIN Content(v) THEN Content(v)[k] ELSE default
Element(v, i) == Get(v, i - 1, null)     \* value[i - 1]: a hole reads as null
IsMember(v, name) == ~IsNull(v) /\ name \in DOMAIN Content(v)
IsValidIndex(v, i) == i < SizeOf(v)

SetElement(v, i, new) == LET w == Touch(v, ArrayT, i)
                         IN  PutAt(w, ArrayT, i, Assign(Content(w)[i], new))
SetMember(v, name, new) == LET w == Touch(v, ObjectT, name)
                           IN  PutAt(w, ObjectT, name, Assign(Content(w)[name], new))
AppendValue(v, new) == SetElement(v, SizeOf(v), new)

(* resize, and whether the assertion after its erasing loop holds.         *)
Resize(v, n) ==
    LET w == Become(v, ArrayT)
        kept == [i \in DOMAIN Content(w) \ n..(SizeOf(w) - 1) |-> Content(w)[i]]
    IN  CASE n = 0 -> Clear(w)
          [] n > SizeOf(w) -> Touch(w, ArrayT, n - 1)
          [] OTHER -> <<ArrayT, kept, Comments(w)>>
ResizeAsserts(v, n) == n = 0 \/ SizeOf(Resize(v, n)) = n

RemoveMember(v, name) ==
    IF ~IsMember(v, name) THEN v
    ELSE <<ObjectT, [k \in DOMAIN Content(v) \ {name} |-> Content(v)[k]], Comments(v)>>
=============================================================================
