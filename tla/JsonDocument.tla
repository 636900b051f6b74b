---------------------------- MODULE JsonDocument ----------------------------
(***************************************************************************)
(* A program that uses the JSON library: it builds a document, one call of *)
(* Json::Value at a time, or it reads a text, one token more at a time.    *)
(* What the library promises of values, paths, iterators, the writers and  *)
(* the reader is stated here.                                              *)
(***************************************************************************)
EXTENDS JsonBuild, JsonText

CONSTANTS Paths,        \* path texts given to Json::Path
          Tokens,       \* tokens of the texts that are read, as source text
          MaxTokens     \* bound: tokens of a text, colons not counted

VARIABLE input          \* the tokens of the text to read

jsonVars == <<doc, list, aborted, input>>

JsonInit == BuildInit /\ input = <<>>

Build == input = <<>> /\ BuildNext /\ UNCHANGED input

-----------------------------------------------------------------------------
(* Reading.  The tokens of a text are separated by blanks.                 *)
Source(toks) == Concat([i \in 1..Len(toks) |-> T(toks[i]) \o <<SP>>])
Read(toks) == Parse(Source(toks), null, FALSE, TRUE)

(* A text grows while the reader wants more: every error there is, is at   *)
(* its end; comments may follow the whole.                                 *)
IsCommentToken(tok) == tok \in {"/*c*/", "//d\n"}
ErrorsOf(read) == ToSet(read[1].errors)
Continues(read, tok) ==
    /\ \A at_error \in ErrorsOf(read) : at_error > Len(Source(input))
    /\ read[2] => IsCommentToken(tok)
TypeToken(tok) ==
    /\ doc = NewDocument /\ ~aborted
    /\ Cardinality({i \in 1..Len(input) : input[i] # ":"}) < MaxTokens
    /\ input = <<>> \/ Continues(Read(input), tok)
    /\ input' = Append(input, tok)
    /\ UNCHANGED <<doc, list, aborted>>

JsonNext == Build \/ \E tok \in Tokens : TypeToken(tok)

-----------------------------------------------------------------------------
(* The same JSON value, whatever C++ type its numbers have and whatever    *)
(* the comments: a hole of an array and a null are the same element.       *)
RECURSIVE Same(_, _)
Same(v, w) ==
    CASE IsNumber(v) -> IsNumber(w) /\ AsDouble(v) = AsDouble(w)
      [] TypeOf(v) = ArrayT -> /\ TypeOf(w) = ArrayT /\ SizeOf(v) = SizeOf(w)
                               /\ \A i \in 1..SizeOf(v) : Same(Element(v, i), Element(w, i))
      [] TypeOf(v) = ObjectT -> /\ TypeOf(w) = ObjectT
                                /\ DOMAIN Content(v) = DOMAIN Content(w)
                                /\ \A k \in DOMAIN Content(v) : Same(Content(v)[k], Content(w)[k])
      [] OTHER -> Equal(v, w)

(* Property JsonRoundTrip: every writer's text of a document, built by     *)
(* calls or read from a text, with its comments, is accepted by the reader *)
(* and read as the same document.                                          *)
IsDocument(read, d) == read[2] /\ Same(read[1].root, d)
RootOf(read) == IF read[2] THEN {read[1].root} ELSE {}
JsonRoundTrip ==
    \A d \in {doc} \cup RootOf(Read(input)) :
        \A text \in {FastWrite(d, FALSE), FastWrite(d, TRUE), StyledWrite(d), StreamWrite(d)} :
            IsDocument(Parse(text, null, FALSE, TRUE), d)

RECURSIVE Fits(_, _)
Fits(v, steps) == \/ steps = <<>>
                  \/ /\ TypeOf(v) \in {NullT, steps[1][1]}
                     /\ Fits(Get(v, steps[1][2], null), Tail(steps))

(* What make() puts at a path, both resolve()s find there; the one with a  *)
(* default only on a path of names, its test of an index is upside down.   *)
PathsFind ==
    \A p \in Paths, v \in Elements :
        LET steps == MakePath(p, 1, <<<<ObjectT, Array>>>>)
            made == Make(doc, steps, v)
            names == \A i \in 1..Len(steps) : steps[i][1] = ObjectT
        IN  Fits(doc, steps) => /\ Equal(Resolve(made, steps), v)
                                /\ names => Equal(ResolveOr(made, steps, null), v)

(* operator< and operator== are one strict total order of all values.      *)
Ordered ==
    \A v, w \in Inside : /\ ~(Less(v, w) /\ Less(w, v))
                         /\ ~Less(v, w) /\ ~Less(w, v) <=> Equal(v, w)
                         /\ \A x \in Elements : Less(v, w) /\ Less(w, x) => Less(v, x)

(* A loop from begin() to end() visits every entry once, in their order.   *)
IterationVisits ==
    \A v \in {v \in Inside : HasChildren(v)} :
        LET visited == {i \in 1..Len(Keys(v)) + 1 : ~IteratorsEqual(Iterator(v, i), End(v))}
        IN  /\ Distance(Begin(v), End(v)) = Cardinality(visited)
            /\ IteratorsEqual(CopyIterator(Begin(v), End(v)), End(v))
            /\ \A i, j \in visited :
                  i < j => /\ Less(IteratorKey(Iterator(v, i)), IteratorKey(Iterator(v, j)))
                           /\ TypeOf(v) = ArrayT =>
                                 IteratorIndex(Iterator(v, i)) < IteratorIndex(Iterator(v, j))

(* Property AccessAgrees: the ways into a value agree with one another.    *)
AccessAgrees == PathsFind /\ Ordered /\ IterationVisits

(* The reference grammar over the tokens, as sets of positions after a     *)
(* value that starts at i.  separators are what may stand between two      *)
(* elements of an array: "," in JSON, any token in the reader's practice.  *)
Scalars == {"1", "null", "\"a\"", "true"}
TokenAt(toks, i) == IF i <= Len(toks) THEN toks[i] ELSE ""
AfterComments(toks, i) == IF \E j \in i..Len(toks) : ~IsCommentToken(toks[j])
                          THEN CHOOSE j \in i..Len(toks) : /\ ~IsCommentToken(toks[j])
                                                           /\ \A k \in i..j - 1 : IsCommentToken(toks[k])
                          ELSE Len(toks) + 1

RECURSIVE ValueEnds(_, _, _), ElementEnds(_, _, _), MemberEnds(_, _, _)
ValueEnds(toks, start, separators) ==
    LET i == AfterComments(toks, start)
        first == TokenAt(toks, i)
    IN  CASE first \in Scalars -> {i + 1}
          [] first = "[" -> IF TokenAt(toks, i + 1) = "]" THEN {i + 2}
                            ELSE ElementEnds(toks, i + 1, separators)
          [] first = "{" -> IF TokenAt(toks, AfterComments(toks, i + 1)) = "}"
                            THEN {AfterComments(toks, i + 1) + 1}
                            ELSE MemberEnds(toks, i + 1, separators)
          [] OTHER -> {}
ElementEnds(toks, i, separators) ==
    UNION {LET k == AfterComments(toks, j)
           IN  CASE TokenAt(toks, k) = "]" -> {k + 1}
                 [] TokenAt(toks, k) \in separators -> ElementEnds(toks, k + 1, separators)
                 [] OTHER -> {} : j \in ValueEnds(toks, i, separators)}
MemberEnds(toks, i, separators) ==
    LET name == AfterComments(toks, i)
    IN  IF TokenAt(toks, name) # "\"a\"" \/ TokenAt(toks, name + 1) # ":" THEN {}
        ELSE UNION {LET k == AfterComments(toks, j)
                    IN  CASE TokenAt(toks, k) = "}" -> {k + 1}
                          [] \/ TokenAt(toks, k) = ","
                             \/ k > j /\ TokenAt(toks, k) # "" ->
                                MemberEnds(toks, k + 1, separators)
                          [] OTHER -> {} : j \in ValueEnds(toks, name + 2, separators)}

(* Property ReaderAccepts: the reader accepts a text exactly when it       *)
(* starts with a value of the grammar in which any token separates array   *)
(* elements (so it accepts every JSON text), and what it then holds is as  *)
(* long as the text says; a rejected text has an error, on a line of it.   *)
Accepts(read, ends) ==
    /\ read[2] <=> ends # {}
    /\ ValueEnds(input, 1, {","}) \subseteq ends
    /\ read[2] <=> read[1].errors = <<>>
    /\ \A at_error \in ErrorsOf(read) :
          LineAndColumn(Source(input), at_error)[2] \in 1..Len(Source(input)) + 1
ReaderAccepts == Accepts(Read(input), ValueEnds(input, 1, Tokens \ {"]"}))
=============================================================================
