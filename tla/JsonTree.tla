------------------------------ MODULE JsonTree ------------------------------
(***************************************************************************)
(* What walks a whole Json::Value: the order of values, paths and          *)
(* iterators.  Reading a path and writing back along it stand for the      *)
(* references that operator[] returns.                                     *)
(***************************************************************************)
EXTENDS JsonValue, TLC

(* Order.  CZString compares names by strcmp and indexes as numbers.       *)
KeyLess(t, j, k) == IF t = ArrayT THEN j < k ELSE StrLess(j, k)
Keys(v) == SortSeq(SetToSeq(DOMAIN Content(v)), LAMBDA j, k : KeyLess(TypeOf(v), j, k))

RECURSIVE Less(_, _)
Less(v, w) ==
    LET c == Content(v)
        d == Content(w)
        n == Cardinality(DOMAIN c)
        EntryLess(i) == LET j == Keys(v)[i]
                            k == Keys(w)[i]
                        IN  KeyLess(TypeOf(v), j, k) \/ (j = k /\ Less(c[j], d[k]))
        EntryMore(i) == LET j == Keys(v)[i]
                            k == Keys(w)[i]
                        IN  KeyLess(TypeOf(v), k, j) \/ (j = k /\ Less(d[k], c[j]))
    IN  IF TypeOf(v) # TypeOf(w) THEN TypeOf(v) < TypeOf(w)
        ELSE CASE TypeOf(v) = NullT -> FALSE
               [] TypeOf(v) \in {IntT, UIntT, RealT} -> c < d
               [] TypeOf(v) = BoolT -> ~c /\ d
               [] TypeOf(v) = StringT ->
                     \/ c = NullString /\ d # NullString
                     \/ NullString \notin {c, d} /\ StrLess(c, d)
               [] OTHER -> \/ n < Cardinality(DOMAIN d)
                           \/ /\ n = Cardinality(DOMAIN d)
                              /\ \E i \in 1..n : /\ EntryLess(i)
                                                 /\ \A j \in 1..i - 1 : ~EntryMore(j)

RECURSIVE Equal(_, _)
Equal(v, w) ==
    /\ TypeOf(v) = TypeOf(w)
    /\ IF TypeOf(v) \in {ArrayT, ObjectT}
       THEN /\ DOMAIN Content(v) = DOMAIN Content(w)
            /\ \A k \in DOMAIN Content(v) : Equal(Content(v)[k], Content(w)[k])
       ELSE Content(v) = Content(w)

-----------------------------------------------------------------------------
MemberNames(v) == IF IsNull(v) THEN <<>> ELSE Keys(v)

(* The value at the end of a path of keys, and the tree with it replaced.  *)
RECURSIVE ValueAt(_, _)
ValueAt(v, path) ==
    IF path = <<>> THEN v ELSE ValueAt(Content(v)[Head(path)], Tail(path))
RECURSIVE Replace(_, _, _)
Replace(v, path, new) ==
    IF path = <<>> THEN new
    ELSE PutAt(v, TypeOf(v), Head(path), Replace(Content(v)[Head(path)], Tail(path), new))

-----------------------------------------------------------------------------
(* Path: "." ".name" "[n]" "%" "[%]".  Its arguments are <<type, key>>;    *)
(* every "%" takes the first of them, the iterator is never advanced.      *)
ArgIf(args, t) == IF args # <<>> /\ args[1][1] = t THEN <<args[1]>> ELSE <<>>

RECURSIVE MakePath(_, _, _)
MakePath(s, i, args) ==
    LET Closed(j) == IF j > Len(s) THEN j ELSE j + 1   \* "*current++ != ']'" only reports
        digits == Scan(s, i + 1, LAMBDA c : ~IsDigit(c))
        name == Scan(s, i, LAMBDA c : c \in {C("["), C(".")})
    IN  CASE i > Len(s) -> <<>>
          [] s[i] = C("[") /\ At(s, i + 1, T("%")) ->
                ArgIf(args, ArrayT) \o MakePath(s, Closed(i + 1), args)
          [] s[i] = C("[") /\ ~At(s, i + 1, T("%")) ->
                <<<<ArrayT, Number(Slice(s, i + 1, digits))>>>> \o MakePath(s, Closed(digits), args)
          [] s[i] = C("%") -> ArgIf(args, ObjectT) \o MakePath(s, i + 1, args)
          [] s[i] = C(".") -> MakePath(s, i + 1, args)
          [] OTHER -> <<<<ObjectT, Slice(s, i, name)>>>> \o MakePath(s, name, args)

(* Path::resolve: a step into a value of the other container type asserts, *)
(* which the caller must avoid; a null or a missing value stays null.      *)
RECURSIVE Resolve(_, _)
Resolve(v, steps) ==
    IF steps = <<>> THEN v
    ELSE Resolve(Get(v, steps[1][2], null), Tail(steps))

(* The overload with a default: it gives up on an index that IS valid.     *)
RECURSIVE ResolveOr(_, _, _)
ResolveOr(v, steps, default) ==
    IF steps = <<>> THEN v
    ELSE LET t == steps[1][1]
             k == steps[1][2]
         IN  IF t = ArrayT
             THEN IF ~IsArray(v) \/ IsValidIndex(v, k) THEN default
                  ELSE ResolveOr(Get(v, k, null), Tail(steps), default)
             ELSE IF ~IsObject(v) \/ ~IsMember(v, k) THEN default
                  ELSE ResolveOr(Get(v, k, null), Tail(steps), default)

(* Path::make, with a new value assigned through the reference it returns. *)
RECURSIVE Make(_, _, _)
Make(v, steps, new) ==
    IF steps = <<>> THEN Assign(v, new)
    ELSE LET w == Touch(v, steps[1][1], steps[1][2])
         IN  PutAt(w, TypeOf(w), steps[1][2], Make(Content(w)[steps[1][2]], Tail(steps), new))

-----------------------------------------------------------------------------
(* Iterators: the container, a position in its keys, and isNull_.          *)
Iterator(v, pos) == [of |-> v, pos |-> pos, isNull |-> TypeOf(v) \notin {ArrayT, ObjectT}]
Begin(v) == Iterator(v, 1)
End_Mutation(v) == Iterator(v, IF TypeOf(v) \in {ArrayT, ObjectT} THEN Len(Keys(v)) ELSE 1)
End(v)   == Iterator(v, IF TypeOf(v) \in {ArrayT, ObjectT} THEN Len(Keys(v)) + 1 ELSE 1)
DefaultIterator == Iterator(null, 1)

(* copy() takes the position and leaves isNull_ as it was.                 *)
CopyIterator(old, new) == [new EXCEPT !.isNull = old.isNull]
IteratorsEqual(i, j) == IF i.isNull THEN j.isNull ELSE i.pos = j.pos
Distance(i, j) == IF i.isNull /\ j.isNull THEN 0 ELSE j.pos - i.pos
IteratorKey(i) == LET k == Keys(i.of)[i.pos]
                  IN  IF TypeOf(i.of) = ObjectT THEN Of(StringT, k) ELSE Of(IntT, k)
IteratorIndex(i) == IF TypeOf(i.of) = ArrayT THEN Keys(i.of)[i.pos] ELSE maxUInt
=============================================================================
