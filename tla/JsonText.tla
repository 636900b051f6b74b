------------------------------ MODULE JsonText ------------------------------
(***************************************************************************)
(* Json::Reader and the three writers (src/utils/json/src/json_reader.cpp  *)
(* and json_writer.cpp).  The reader is one record r threaded through its  *)
(* methods: text (begin_..end_), cur (current_), root with nodes (the path *)
(* of the top of nodes_), lastEnd and last (lastValueEnd_ and lastValue_), *)
(* before (commentsBefore_), errors (the start of each error's token) and  *)
(* the two features.  A position past the text holds the terminating NUL.  *)
(***************************************************************************)
EXTENDS JsonTree

CONSTANT RightMargin    \* rightMargin_, 74 in both styled writers
ASSUME RightMarginAssumption == RightMargin \in Nat \ {0}

CharAt(t, i) == IF i \in 1..Len(t) THEN t[i] ELSE NUL

-----------------------------------------------------------------------------
(* Text of the leaves.                                                     *)
IntText(i) == IF i < 0 THEN T("-") \o Decimal(-i, 1) ELSE Decimal(i, 1)

(* "%.6lf", then the zeros go: all six of them with the point, but an      *)
(* only decimal keeps one.  For doubles whose sign and digits before the   *)
(* point are at most 24: for more the code writes past its 32 bytes.       *)
DoubleText(real) ==
    LET m == IF real < 0 THEN -real ELSE real
        decimals == Decimal(m % Million, 6)
        last == CHOOSE i \in 0..6 : /\ i = 0 \/ decimals[i] # C("0")
                                    /\ \A j \in i + 1..6 : decimals[j] = C("0")
        kept == IF last = 1 THEN 2 ELSE last
    IN  (IF real < 0 THEN T("-") ELSE <<>>) \o Decimal(m \div Million, 1)
          \o (IF kept = 0 THEN <<>> ELSE T(".") \o SubSeq(decimals, 1, kept))

IsControl(c) == c \in 1..31
ShortEscape == (C("\"") :> C("\"")) @@ (C("\\") :> C("\\")) @@ (BS :> C("b"))
                 @@ (C("\f") :> C("f")) @@ (NL :> C("n")) @@ (CR :> C("r")) @@ (C("\t") :> C("t"))

Quoted(s) ==
    LET Escaped(c) == CASE c \in DOMAIN ShortEscape -> <<C("\\"), ShortEscape[c]>>
                        [] IsControl(c) /\ c \notin DOMAIN ShortEscape ->
                              T("\\u00") \o <<HexDigit(c \div 16), HexDigit(c % 16)>>
                        [] OTHER -> <<c>>
    IN  T("\"") \o Concat([i \in 1..Len(s) |-> Escaped(s[i])]) \o T("\"")

(* What writeValue adds for a value without children.                      *)
Leaf(v) == CASE TypeOf(v) = NullT -> T("null")
             [] TypeOf(v) \in {IntT, UIntT} -> IntText(Content(v))
             [] TypeOf(v) = RealT -> DoubleText(Content(v))
             [] TypeOf(v) = StringT -> Quoted(Content(v))
             [] TypeOf(v) = BoolT -> IF Content(v) THEN T("true") ELSE T("false")
             [] TypeOf(v) = ArrayT -> T("[]")
             [] TypeOf(v) = ObjectT -> T("{}")


-----------------------------------------------------------------------------
(* FastWriter.                                                             *)
RECURSIVE FastText(_, _)
FastText(v, yaml) ==
    LET Comma(i) == IF i > 1 THEN T(",") ELSE <<>>
        names == Keys(v)
        Member(i) == Comma(i) \o Quoted(names[i]) \o (IF yaml THEN T(": ") ELSE T(":"))
                       \o FastText(Content(v)[names[i]], yaml)
    IN  CASE TypeOf(v) = ArrayT ->
               T("[") \o Concat([i \in 1..SizeOf(v) |-> Comma(i) \o FastText(Element(v, i), yaml)])
                 \o T("]")
          [] TypeOf(v) = ObjectT ->
               T("{") \o Concat([i \in 1..SizeOf(v) |-> Member(i)]) \o T("}")
          [] OTHER -> Leaf(v)

FastWrite(v, yaml) == FastText(v, yaml) \o <<NL>>

-----------------------------------------------------------------------------
(* StyledWriter and StyledStreamWriter: w is the style, [stream, indent],  *)
(* doc the document so far.  Only the first can look at what it wrote.     *)
Styled   == [stream |-> FALSE, indent |-> T("   ")]
Streamed == [stream |-> TRUE,  indent |-> T("\t")]

RECURSIVE NormalizeEOL(_)
NormalizeEOL(t) ==
    IF t = <<>> THEN <<>>
    ELSE (IF t[1] = CR THEN <<NL>> ELSE <<t[1]>>)
           \o NormalizeEOL(IF t[1] = CR /\ CharAt(t, 2) = NL THEN SubSeq(t, 3, Len(t)) ELSE Tail(t))

NewLine(w, doc, indent) ==
    CASE w.stream -> doc \o <<NL>> \o indent
      [] ~w.stream /\ doc = <<>> -> indent
      [] ~w.stream /\ doc # <<>> ->
            CASE Last(doc) = SP -> doc
              [] Last(doc) = NL -> doc \o indent
              [] OTHER -> doc \o <<NL>> \o indent

CommentBefore(v, doc) ==
    IF HasComment(v, Before) THEN doc \o NormalizeEOL(Comments(v)[Before]) \o <<NL>> ELSE doc
CommentAfter(v, doc) ==
    LET same == IF HasComment(v, AfterOnSameLine)
                THEN doc \o <<SP>> \o NormalizeEOL(Comments(v)[AfterOnSameLine]) ELSE doc
    IN  IF HasComment(v, After)
        THEN same \o <<NL>> \o NormalizeEOL(Comments(v)[After]) \o <<NL>> ELSE same

HasChildren(v) == TypeOf(v) \in {ArrayT, ObjectT} /\ SizeOf(v) > 0

(* isMultineArray: its "&& hasCommentForValue" can never set the flag.     *)
TooLong(v) == 4 + 2 * (SizeOf(v) - 1)
                + Len(Concat([i \in 1..SizeOf(v) |-> Leaf(Element(v, i))])) >= RightMargin
IsMultiLine(v) == \/ 3 * SizeOf(v) >= RightMargin
                  \/ \E i \in 1..SizeOf(v) : HasChildren(Element(v, i))
                  \/ TooLong(v)

RECURSIVE Write(_, _, _, _), WriteMembers(_, _, _, _, _), WriteElements(_, _, _, _, _)
Write(w, v, doc, indent) ==
    LET inner == indent \o w.indent
        open == NewLine(w, doc, indent) \o (IF TypeOf(v) = ArrayT THEN T("[") ELSE T("{"))
        line == [i \in 1..SizeOf(v) |-> (IF i > 1 THEN T(", ") ELSE <<>>) \o Leaf(Element(v, i))]
    IN  CASE ~HasChildren(v) -> doc \o Leaf(v)
          [] HasChildren(v) /\ TypeOf(v) = ObjectT ->
                NewLine(w, WriteMembers(w, v, 1, open, inner), indent) \o T("}")
          [] HasChildren(v) /\ TypeOf(v) = ArrayT /\ IsMultiLine(v) ->
                NewLine(w, WriteElements(w, v, 1, open, inner), indent) \o T("]")
          [] OTHER -> doc \o T("[ ") \o Concat(line) \o T(" ]")

WriteMembers_Mutation(w, v, i, doc, indent) ==     \* the comma after the comment
    LET name == Keys(v)[i]
        child == Content(v)[name]
        label == NewLine(w, CommentBefore(child, doc), indent) \o Quoted(name) \o T(" : ")
        value == CommentAfter(child, Write(w, child, label, indent))
    IN  IF i = SizeOf(v) THEN value ELSE WriteMembers(w, v, i + 1, value \o T(","), indent)

WriteMembers(w, v, i, doc, indent) ==
    LET name == Keys(v)[i]
        child == Content(v)[name]
        label == NewLine(w, CommentBefore(child, doc), indent) \o Quoted(name) \o T(" : ")
        value == Write(w, child, label, indent)
    IN  IF i = SizeOf(v) THEN CommentAfter(child, value)
        ELSE WriteMembers(w, v, i + 1, CommentAfter(child, value \o T(",")), indent)

WriteElements(w, v, i, doc, indent) ==
    LET child == Element(v, i)
        value == Write(w, child, NewLine(w, CommentBefore(child, doc), indent), indent)
    IN  IF i = SizeOf(v) THEN CommentAfter(child, value)
        ELSE WriteElements(w, v, i + 1, CommentAfter(child, value \o T(",")), indent)

StyledWrite(v) ==
    CommentAfter(v, Write(Styled, v, CommentBefore(v, <<>>), <<>>)) \o <<NL>>
StreamValue(v, doc, indent) == Write(Streamed, v, doc, indent)
StreamWrite(v) ==
    CommentAfter(v, StreamValue(v, CommentBefore(v, <<>>), <<>>)) \o <<NL>>

-----------------------------------------------------------------------------
(* The scanner.                                                            *)
IsBlank(c) == c \in {SP, 9, CR, NL}
ContainsNewLine(t, i, j) == \E k \in i..j - 1 : t[k] \in {CR, NL}
NumberChar(c) == IsDigit(c) \/ c \in {C("."), C("e"), C("E"), C("+"), C("-")}

(* readString: where it stops, and whether it stopped on a quote.          *)
RECURSIVE EndOfString(_, _)
EndOfString(t, i) ==
    CASE i > Len(t) -> <<FALSE, i>>
      [] i <= Len(t) /\ t[i] = C("\"") -> <<TRUE, i + 1>>
      [] i <= Len(t) /\ t[i] = C("\\") -> IF i + 2 > Len(t) THEN <<FALSE, Len(t) + 1>>
                                         ELSE EndOfString(t, i + 2)
      [] OTHER -> EndOfString(t, i + 1)

(* readComment, after its "/".  A // comment takes its line's end along.   *)
EndOfComment(t, i) ==
    LET line == Scan(t, i + 1, LAMBDA c : c \in {CR, NL})
        star == Find(t, i + 1, T("*/"))
    IN  CASE CharAt(t, i) = C("/") -> <<TRUE, IF line > Len(t) THEN line ELSE line + 1>>
          [] CharAt(t, i) = C("*") -> IF star = 0 THEN <<FALSE, Len(t) + 1>>
                                      ELSE <<TRUE, star + 2>>
          [] OTHER -> <<FALSE, IF i > Len(t) THEN i ELSE i + 1>>

(* addComment: to the last value, or kept for the next one.                *)
AddComment(r, i, j) ==
    LET text == Slice(r.text, i, j)
        same == /\ r.lastEnd # 0
                /\ ~ContainsNewLine(r.text, r.lastEnd, i)
                /\ r.text[i + 1] # C("*") \/ ~ContainsNewLine(r.text, i, j)
        value == ValueAt(r.root, r.last)
    IN  IF same
        THEN [r EXCEPT !.root = Replace(@, r.last, SetComment(value, AfterOnSameLine, text))]
        ELSE [r EXCEPT !.before = (IF @ = <<>> THEN @ ELSE @ \o <<NL>>) \o text]

Punctuation == [c \in {C(p) : p \in {"{", "}", "[", "]", ",", ":"}} |->
                  CHOOSE p \in {"{", "}", "[", "]", ",", ":"} : C(p) = c]
Words == (C("t") :> "true") @@ (C("f") :> "false") @@ (C("n") :> "null")

(* readToken, from i, where the blanks end.  A token is [type, start, end].*)
Token(r, type, i, j) == <<[r EXCEPT !.cur = j], [type |-> type, start |-> i, end |-> j]>>
ReadComment(r, i, end) ==
    IF ~end[1] THEN Token(r, "error", i, end[2])
    ELSE <<IF r.collect THEN AddComment([r EXCEPT !.cur = end[2]], i, end[2])
           ELSE [r EXCEPT !.cur = end[2]],
           [type |-> "comment", start |-> i, end |-> end[2]]>>
ReadString(r, i, end) == Token(r, IF end[1] THEN "string" ELSE "error", i, end[2])
TokenFrom(r, t, i) ==
    LET c == CharAt(t, i) IN
    CASE i > Len(t) -> Token(r, "eos", i, i)
      [] i <= Len(t) /\ c = NUL -> Token(r, "eos", i, i + 1)
      [] c \in DOMAIN Punctuation -> Token(r, Punctuation[c], i, i + 1)
      [] c = C("\"") -> ReadString(r, i, EndOfString(t, i + 1))
      [] c = C("/") -> ReadComment(r, i, EndOfComment(t, i + 1))
      [] IsDigit(c) \/ c = C("-") ->
            Token(r, "number", i, Scan(t, i + 1, LAMBDA d : ~NumberChar(d)))
      [] c \in DOMAIN Words ->
            IF At(t, i, T(Words[c])) THEN Token(r, Words[c], i, i + Len(Words[c]))
            ELSE Token(r, "error", i, i + 1)
      [] OTHER -> Token(r, "error", i, i + 1)
ReadToken(r) == TokenFrom(r, r.text, Scan(r.text, r.cur, LAMBDA c : ~IsBlank(c)))

IsComment(tok) == tok.type = "comment"
RECURSIVE SkipComments(_)
PastComment(s) == IF IsComment(s[2]) THEN SkipComments(s[1]) ELSE s
SkipComments(r) == PastComment(ReadToken(r))
NextToken(r) == IF r.allowComments THEN SkipComments(r) ELSE ReadToken(r)

-----------------------------------------------------------------------------
(* Decoding.                                                               *)
Current(r) == ValueAt(r.root, r.nodes)
SetCurrent(r, v) == [r EXCEPT !.root = Replace(@, r.nodes, Assign(Current(r), v))]
Fails(r, tok) == <<[r EXCEPT !.errors = Append(@, tok.start)], FALSE>>

(* sscanf("%lf"): the longest prefix that is a number, in millionths, or   *)
(* nothing.  Decimals beyond the sixth are dropped.                        *)
DigitsAt(s, i) == Slice(s, i, Scan(s, i, LAMBDA c : ~IsDigit(c)))
ExponentAt(s, i) ==
    LET first == IF CharAt(s, i + 1) \in {C("+"), C("-")} THEN i + 2 ELSE i + 1
    IN  IF CharAt(s, i) \in {C("e"), C("E")} /\ IsDigit(CharAt(s, first))
        THEN Number(DigitsAt(s, first)) ELSE 0
Millionths(whole, decimals) ==
    Number(whole) * Million + Number(SubSeq(decimals \o T("000000"), 1, 6))
Scaled(n, exponent, down) == IF down THEN n \div 10 ^ exponent ELSE n * 10 ^ exponent
RealOf(s, whole, decimals, stop) ==
    IF whole \o decimals = <<>> THEN {}
    ELSE {Scaled(Millionths(whole, decimals), ExponentAt(s, stop), CharAt(s, stop + 1) = C("-"))}
ScanUnsigned(s, whole) ==
    LET point == Len(whole) + 1
        decimals == DigitsAt(s, point + 1)
    IN  IF CharAt(s, point) = C(".") THEN RealOf(s, whole, decimals, point + 1 + Len(decimals))
        ELSE RealOf(s, whole, <<>>, point)
ScanDouble(s) ==
    IF CharAt(s, 1) # C("-") THEN ScanUnsigned(s, DigitsAt(s, 1))
    ELSE {-real : real \in ScanUnsigned(Tail(s), DigitsAt(s, 2))}

Decodes(r, tok, type, values) ==
    IF values = {} THEN Fails(r, tok)
    ELSE <<SetCurrent(r, Of(type, CHOOSE value \in values : TRUE)), TRUE>>
(* For tokens of any length but 32: for one of those the code puts the     *)
(* terminating NUL past its 32 bytes.                                      *)
DecodeDouble(r, tok) == Decodes(r, tok, RealT, ScanDouble(Slice(r.text, tok.start, tok.end)))

(* decodeNumber: a double as soon as one more digit would follow a value   *)
(* of a tenth of the range.                                                *)
DecodeNumber(r, tok) ==
    LET s == Slice(r.text, tok.start, tok.end)
        negative == s[1] = C("-")
        digits == IF negative THEN Tail(s) ELSE s
        value == Number(digits)
        threshold == (IF negative THEN -minInt ELSE maxUInt) \div 10
        isDouble == \E i \in 1..Len(s) : \/ s[i] \in {C("."), C("e"), C("E"), C("+")}
                                         \/ s[i] = C("-") /\ i > 1
        tooLong == digits # <<>> /\ Number(Front(digits)) >= threshold
    IN  IF isDouble \/ tooLong
        THEN DecodeDouble(r, tok)
        ELSE <<SetCurrent(r, IF negative THEN Of(IntT, -value)
                             ELSE IF value <= maxInt THEN Of(IntT, value)
                             ELSE Of(UIntT, value)), TRUE>>

CodePointToUTF8(cp) ==
    LET Tail6(n) == 128 + ((cp \div n) % 64)
    IN  CASE cp <= 127 -> <<cp>>
          [] cp \in 128..2047 -> <<192 + cp \div 64, Tail6(1)>>
          [] cp \in 2048..65535 -> <<224 + cp \div 4096, Tail6(64), Tail6(1)>>
          [] cp \in 65536..1114111 ->
                <<240 + cp \div 262144, Tail6(4096), Tail6(64), Tail6(1)>>
          [] OTHER -> <<>>

HexValue(c) == CASE IsDigit(c) -> c - 48
                 [] c \in 97..102 -> c - 87
                 [] c \in 65..70 -> c - 55
                 [] OTHER -> -1
(* decodeUnicodeEscapeSequence: the four digits from i on, or nothing.     *)
Hex4(s, i) ==
    LET d == [k \in 0..3 |-> HexValue(CharAt(s, i + k))]
    IN  IF i + 3 > Len(s) \/ \E k \in 0..3 : d[k] < 0 THEN {}
        ELSE {4096 * d[0] + 256 * d[1] + 16 * d[2] + d[3]}

(* decodeUnicodeCodePoint, after "\u": <<code point, characters read>>.    *)
CodePointAt(s, i) ==
    LET Pair(high) == {<<65536 + (1024 * (high % 1024)) + (low % 1024), 10>> : low \in Hex4(s, i + 6)}
    IN  UNION {IF high \notin 55296..56319 THEN {<<high, 4>>}
               ELSE IF At(s, i + 4, T("\\u")) THEN Pair(high) ELSE {} : high \in Hex4(s, i)}

Unescaped == (C("b") :> BS) @@ (C("f") :> C("\f")) @@ (C("n") :> NL) @@ (C("r") :> CR)
               @@ (C("t") :> C("\t")) @@ [c \in {C("\""), C("/"), C("\\")} |-> c]

(* decodeString: the text between the quotes, or nothing when an escape is *)
(* bad; s is what stands between them, i the position in it.               *)
RECURSIVE Decoded(_, _)
Decoded(s, i) ==
    LET escape == CharAt(s, i + 1)
        Then(piece, j) == {piece \o rest : rest \in Decoded(s, j)}
    IN  CASE i > Len(s) -> {<<>>}
          [] i <= Len(s) /\ s[i] # C("\\") -> Then(<<s[i]>>, i + 1)
          [] OTHER ->
                CASE escape \in DOMAIN Unescaped -> Then(<<Unescaped[escape]>>, i + 2)
                  [] escape = C("u") ->
                        UNION {Then(CodePointToUTF8(p[1]), i + 2 + p[2]) : p \in CodePointAt(s, i + 2)}
                  [] OTHER -> {}

StringOf(r, tok) == Decoded(Slice(r.text, tok.start + 1, tok.end - 1), 1)
DecodeString(r, tok) == Decodes(r, tok, StringT, StringOf(r, tok))

-----------------------------------------------------------------------------
(* The parser.  Each operator returns <<r, successful>>.                   *)
RECURSIVE Recover(_, _, _)
SkipUntil(s, until, errors) ==
    IF s[2].type \in {until, "eos"} THEN <<[s[1] EXCEPT !.errors = errors], FALSE>>
    ELSE Recover(s[1], until, errors)
Recover(r, until, errors) == SkipUntil(ReadToken(r), until, errors)
RecoverFromError(r, until) == Recover(r, until, r.errors)
AddErrorAndRecover(r, tok, until) == RecoverFromError(Fails(r, tok)[1], until)

Push(r, key, t) == [r EXCEPT !.root = Replace(@, r.nodes, Touch(Current(r), t, key)),
                             !.nodes = Append(@, key)]
Pop(r) == [r EXCEPT !.nodes = Front(@)]

(* The comments read before a value become its own.                        *)
TakeBefore(r) ==
    IF ~r.collect \/ r.before = <<>> THEN r
    ELSE [r EXCEPT !.before = <<>>,
                   !.root = Replace(@, r.nodes, SetComment(Current(r), Before, r.before))]
Ended(read, nodes) ==
    IF read[1].collect THEN <<[read[1] EXCEPT !.lastEnd = read[1].cur, !.last = nodes], read[2]>>
    ELSE read

RECURSIVE ReadValue(_), ReadMembers(_, _), ReadElements(_, _)
ReadOf(r, tok) ==
    CASE tok.type = "{" -> ReadMembers(SetCurrent(r, Empty(ObjectT)), <<>>)
      [] tok.type = "[" -> ReadElements(SetCurrent(r, Empty(ArrayT)), 0)
      [] tok.type = "number" -> DecodeNumber(r, tok)
      [] tok.type = "string" -> DecodeString(r, tok)
      [] tok.type \in {"true", "false"} -> <<SetCurrent(r, Of(BoolT, tok.type = "true")), TRUE>>
      [] tok.type = "null" -> <<SetCurrent(r, null), TRUE>>
ValueTokens == {"{", "[", "number", "string", "true", "false", "null"}
ReadFrom(r, tok) == IF tok.type \in ValueTokens THEN Ended(ReadOf(r, tok), r.nodes) ELSE Fails(r, tok)
TakeToken(s) == ReadFrom(TakeBefore(s[1]), s[2])
ReadValue(r) == TakeToken(NextToken(r))

(* readObject, from one member name on; name is the member before it.  The *)
(* steps follow one another, the last one first.                           *)
NextMember(s, name) == IF s[2].type = "}" THEN <<s[1], TRUE>> ELSE ReadMembers(s[1], name)
MemberComma(s, name) ==
    IF s[2].type \notin {"}", ",", "comment"} THEN AddErrorAndRecover(s[1], s[2], "}")
    ELSE NextMember(IF IsComment(s[2]) THEN SkipComments(s[1]) ELSE s, name)
MemberValue(read, name) == IF read[2] THEN MemberComma(ReadToken(Pop(read[1])), name)
                           ELSE RecoverFromError(Pop(read[1]), "}")
MemberColon(s, name) ==
    IF s[2].type = ":" THEN MemberValue(ReadValue(Push(s[1], CStr(name), ObjectT)), name)
    ELSE AddErrorAndRecover(s[1], s[2], "}")
MemberName(s, names) == IF names = {} THEN AddErrorAndRecover(s[1], s[2], "}")
                        ELSE MemberColon(ReadToken(s[1]), CHOOSE m \in names : TRUE)
FirstToken_Mutation(s, name) ==        \* "}" is taken after a "," too
    CASE s[2].type = "}" -> <<s[1], TRUE>>
      [] s[2].type = "string" -> MemberName(s, StringOf(s[1], s[2]))
      [] OTHER -> AddErrorAndRecover(s[1], s[2], "}")
FirstToken(s, name) ==
    CASE s[2].type = "}" /\ name = <<>> -> <<s[1], TRUE>>
      [] s[2].type = "string" -> MemberName(s, StringOf(s[1], s[2]))
      [] OTHER -> AddErrorAndRecover(s[1], s[2], "}")
ReadMembers(r, name) == FirstToken(SkipComments(r), name)

(* readArray, from one element on: whatever token is not "]" separates.    *)
NextElement(s, index) == IF s[2].type = "]" THEN <<s[1], TRUE>> ELSE ReadElements(s[1], index + 1)
ElementValue(read, index) == IF read[2] THEN NextElement(SkipComments(Pop(read[1])), index)
                             ELSE RecoverFromError(Pop(read[1]), "]")
ElementAt(r, index) ==
    IF index = 0 /\ CharAt(r.text, r.cur) = C("]") THEN <<[r EXCEPT !.cur = @ + 1], TRUE>>
    ELSE ElementValue(ReadValue(Push(r, index, ArrayT)), index)
ReadElements(r, index) ==
    ElementAt([r EXCEPT !.cur = Scan(r.text, @, LAMBDA c : ~IsBlank(c))], index)

(* parse, under Features::all() or Features::strictMode().                 *)
Start(text, root, strict, collect) ==
    [text |-> text, cur |-> 1, root |-> root, nodes |-> <<>>, lastEnd |-> 0,
     last |-> <<>>, before |-> <<>>, errors |-> <<>>, strict |-> strict,
     allowComments |-> ~strict, collect |-> collect /\ ~strict]
CheckRoot(r, successful) ==
    IF r.strict /\ ~IsArray(r.root) /\ ~IsObject(r.root) THEN Fails(r, [start |-> 1])
    ELSE <<r, successful>>
LastComments(r) == IF ~r.collect \/ r.before = <<>> THEN r
                   ELSE [r EXCEPT !.root = SetComment(@, After, r.before)]
EndOfText(read) == CheckRoot(LastComments(NextToken(read[1])[1]), read[2])
Parse(text, root, strict, collect) == EndOfText(ReadValue(Start(text, root, strict, collect)))

(* getLocationLineAndColumn: lines end in CR, LF or CR LF.                 *)
RECURSIVE LineFrom(_, _, _, _, _)
LineFrom(t, to, i, line, start) ==
    LET next == IF t[i] = CR /\ CharAt(t, i + 1) = NL THEN i + 2 ELSE i + 1
    IN  CASE i >= to \/ i > Len(t) -> <<line + 1, to - start + 1>>
          [] i < to /\ i <= Len(t) /\ t[i] \in {CR, NL} -> LineFrom(t, to, next, line + 1, next)
          [] OTHER -> LineFrom(t, to, next, line, start)
LineAndColumn(t, i) == LineFrom(t, i, 1, 0, 1)
=============================================================================
