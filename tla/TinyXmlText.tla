---------------------------- MODULE TinyXmlText ----------------------------
(***************************************************************************)
(* TinyXML's two ways out of a tree (TiXmlNode::Print to a file and        *)
(* TiXmlPrinter) and its one way in (Parse), with LoadFile and SaveFile.   *)
(* A tree is a record of what the nodes hold, the children in sequence.    *)
(* Positions in a text count from 1; 0 is the null pointer the parser      *)
(* hands back for "nothing left" as for "error", and a text ends where its *)
(* NUL stands, one position past its last character; no value holds a NUL.  *)
(***************************************************************************)
EXTENDS Chars, FiniteSets, XmlLinks

CONSTANTS Condense,     \* TiXmlBase::condenseWhiteSpace
          TabSize       \* TiXmlDocument::tabsize

(* attrs are the name and value pairs of an element and the three values   *)
(* of a declaration.                                                       *)
XNode(type, value, attrs, kids) ==
    [type |-> type, value |-> value, attrs |-> attrs, kids |-> kids]
XLeaf(type, value) == XNode(type, value, <<>>, <<>>)
WithKid(node, kid) == [node EXCEPT !.kids = Append(@, kid)]

-----------------------------------------------------------------------------
(* Writing.                                                                *)
Entities == <<<<T("&amp;"), C("&")>>, <<T("&lt;"), C("<")>>, <<T("&gt;"), C(">")>>,
              <<T("&quot;"), C("\"")>>, <<T("&apos;"), C("'")>>>>

(* Where a hexadecimal reference that starts at i ends: it is passed       *)
(* through as it is, to its ";" or to the last character but one.          *)
ReferenceEnd(s, i) == IF Find(s, i, T(";")) # 0 THEN Find(s, i, T(";")) ELSE Len(s)

RECURSIVE EncodeFrom(_, _)
EncodeFrom_Mutation(s, i) ==           \* control characters stay as they are
    IF i > Len(s) THEN <<>>
    ELSE LET coded == {k \in 1..Len(Entities) : Entities[k][2] = s[i]}
         IN  (IF coded # {} THEN Entities[CHOOSE k \in coded : TRUE][1] ELSE <<s[i]>>)
                \o EncodeFrom(s, i + 1)
EncodeFrom(s, i) ==
    IF i > Len(s) THEN <<>>
    ELSE IF At(s, i, T("&#x"))
    THEN Slice(s, i, ReferenceEnd(s, i)) \o EncodeFrom(s, ReferenceEnd(s, i))
    ELSE LET coded == {k \in 1..Len(Entities) : Entities[k][2] = s[i]}
         IN  (CASE coded # {} -> Entities[CHOOSE k \in coded : TRUE][1]
                [] s[i] < 32 -> T("&#x") \o <<HexDigit(s[i] \div 16), HexDigit(s[i] % 16)>> \o T(";")
                [] OTHER -> <<s[i]>>) \o EncodeFrom(s, i + 1)

EncodeString(s) == EncodeFrom(s, 1)

PrintAttribute(a) ==
    LET quote == IF C("\"") \in {a[2][i] : i \in 1..Len(a[2])} THEN T("'") ELSE T("\"")
    IN  EncodeString(a[1]) \o T("=") \o quote \o EncodeString(a[2]) \o quote

PrintDeclaration(fields) ==
    LET field(name, i) == IF fields[i] = <<>> THEN <<>>
                          ELSE T(name) \o T("=\"") \o fields[i] \o T("\" ")
    IN  T("<?xml ") \o field("version", 1) \o field("encoding", 2)
          \o field("standalone", 3) \o T("?>")

StartTag(n) == T("<") \o n.value \o Concat([i \in 1..Len(Visited(n.attrs)) |->
                                              T(" ") \o PrintAttribute(n.attrs[i])])
EndTag(n) == T("</") \o n.value \o T(">")
IsText(n) == n.type \in {"text", "cdata"}
OnlyText(n) == Len(n.kids) = 1 /\ IsText(n.kids[1])
Repeat(word, times) == Concat([i \in 1..times |-> word])
Indent(depth) == Repeat(T("    "), depth)

PrintText(n, depth) ==
    IF n.type = "text" THEN EncodeString(n.value)
    ELSE <<NL>> \o Indent(depth) \o T("<![CDATA[") \o n.value \o T("]]>") \o <<NL>>
PrintComment(n, depth) == Indent(depth) \o T("<!--") \o n.value \o T("-->")
PrintUnknown(n, depth) == Indent(depth) \o T("<") \o n.value \o T(">")

RECURSIVE PrintNode(_, _)
PrintElement(n, depth) ==
    LET inside == [i \in 1..Len(n.kids) |-> PrintNode(n.kids[i], depth + 1)]
        lines == [i \in 1..Len(n.kids) |-> (IF IsText(n.kids[i]) THEN <<>> ELSE <<NL>>) \o inside[i]]
    IN  Indent(depth) \o StartTag(n) \o
        (IF n.kids = <<>> THEN T(" />")
         ELSE IF OnlyText(n) THEN T(">") \o inside[1] \o EndTag(n)
         ELSE T(">") \o Concat(lines) \o <<NL>> \o Indent(depth) \o EndTag(n))
PrintDocument(n, depth) ==
    Concat([i \in 1..Len(n.kids) |-> PrintNode(n.kids[i], depth) \o <<NL>>])
PrintNode(n, depth) ==
    CASE n.type = "document" -> PrintDocument(n, depth)
      [] n.type = "element" -> PrintElement(n, depth)
      [] IsText(n) -> PrintText(n, depth)
      [] n.type = "comment" -> PrintComment(n, depth)
      [] n.type = "unknown" -> PrintUnknown(n, depth)
      [] OTHER -> PrintDeclaration(n.attrs)

(* TiXmlPrinter: every node on a line of its own, but the text of an       *)
(* element that holds nothing else; indent and break are its settings.     *)
RECURSIVE Printer(_, _, _, _)
Printer(n, depth, indent, break) ==
    LET line(text) == Repeat(indent, depth) \o text \o break
    IN  CASE n.type = "document" ->
               Concat([i \in 1..Len(n.kids) |-> Printer(n.kids[i], depth, indent, break)])
          [] n.type = "element" ->
               IF n.kids = <<>> THEN line(StartTag(n) \o T(" />"))
               ELSE IF OnlyText(n) /\ n.kids[1].type = "text"
               THEN line(StartTag(n) \o T(">") \o EncodeString(n.kids[1].value) \o EndTag(n))
               ELSE line(StartTag(n) \o T(">"))
                      \o Concat([i \in 1..Len(n.kids) |->
                                   Printer(n.kids[i], depth + 1, indent, break)])
                      \o line(EndTag(n))
          [] n.type = "text" -> line(EncodeString(n.value))
          [] n.type = "cdata" -> line(T("<![CDATA[") \o n.value \o T("]]>"))
          [] n.type = "comment" -> line(T("<!--") \o n.value \o T("-->"))
          [] n.type = "unknown" -> line(T("<") \o n.value \o T(">"))
          [] OTHER -> line(PrintDeclaration(n.attrs))

ByteOrderMark == <<239, 187, 191>>
Save(n, bom) == (IF bom THEN ByteOrderMark ELSE <<>>) \o PrintNode(n, 0)

-----------------------------------------------------------------------------
(* Reading: the scanning helpers of TiXmlBase.                             *)
Live(s, p) == p # 0 /\ p <= Len(s)
Or0(s, p) == IF Live(s, p) THEN p ELSE 0

RECURSIVE SkipBlanks(_, _, _)
SkipBlanks(s, p, enc) ==
    IF p > Len(s) THEN p
    ELSE IF enc = "UTF8" /\ \E mark \in {<<187, 191>>, <<191, 190>>, <<191, 191>>} :
                              At(s, p, <<239>> \o mark)
    THEN SkipBlanks(s, p + 3, enc)
    ELSE IF IsSpace(s[p]) THEN SkipBlanks(s, p + 1, enc) ELSE p
SkipWhite(s, p, enc) == IF Live(s, p) THEN SkipBlanks(s, p, enc) ELSE 0

(* Every byte from 127 on counts as a letter.                              *)
IsLetter(c) == IF c < 127 THEN IsAlpha(c) ELSE TRUE
IsNameChar(c) == IsLetter(c) \/ IsDigit(c) \/ c \in {C("_"), C("-"), C("."), C(":")}

ReadName(s, p) ==
    IF Live(s, p) /\ (IsLetter(s[p]) \/ s[p] = C("_"))
    THEN LET end == Scan(s, p, LAMBDA c : ~IsNameChar(c)) IN <<end, Slice(s, p, end)>>
    ELSE <<0, <<>>>>

Lower(s) == [i \in 1..Len(s) |-> ToLower(s[i])]
AtAnyCase(s, p, word) == At(Lower(s), p, Lower(word))

(* The code of a reference's digits: the low byte, or capped where the     *)
(* conversion gives up.                                                    *)
Unconvertible == 2097152
CodeOfDigits(digits, base, enc) ==
    LET value(d) == IF IsDigit(d) THEN d - 48 ELSE ToLower(d) - 87
        code[i \in 0..Len(digits)] ==
            IF i = 0 THEN 0
            ELSE LET next == base * code[i - 1] + value(digits[i])
                 IN  IF enc = "UTF8" THEN Min({next, Unconvertible}) ELSE next % 256
    IN  code[Len(digits)]

ConvertUTF32ToUTF8(code) ==
    LET tail(shift) == 128 + ((code \div (64 ^ shift)) % 64)
    IN  CASE code < 128 -> <<code>>
          [] code \in 128..2047 -> <<192 + code \div 64, tail(0)>>
          [] code \in 2048..65535 -> <<224 + code \div 4096, tail(1), tail(0)>>
          [] code \in 65536..Unconvertible - 1 ->
               <<240 + code \div 262144, tail(2), tail(1), tail(0)>>
          [] OTHER -> <<>>

(* A character reference: the digits are read backwards from the ";" to    *)
(* the nearest mark; one without ";" or with another character fails.      *)
IsDigitOf(base, c) == IsDigit(c) \/ (base = 16 /\ ToLower(c) \in C("a")..C("f"))
CharOf(code, enc) == IF enc = "UTF8" THEN ConvertUTF32ToUTF8(code) ELSE <<code>>
Digits(s, from, end) == Slice(s, Max({i \in from..end - 1 : s[i] = s[from]}) + 1, end)
ReferenceTo(s, from, end, base, enc) ==
    IF end = 0 \/ \E c \in ToSet(Digits(s, from, end)) : ~IsDigitOf(base, c) THEN <<0, <<>>>>
    ELSE <<end + 1, CharOf(CodeOfDigits(Digits(s, from, end), base, enc), enc)>>
GetReference(s, p, enc) ==
    IF At(s, p + 2, T("x")) THEN ReferenceTo(s, p + 2, Find(s, p + 3, T(";")), 16, enc)
    ELSE ReferenceTo(s, p + 1, Find(s, p + 2, T(";")), 10, enc)

(* An "&" that starts none of the five entities is dropped.                *)
GetEntity(s, p, enc) ==
    LET known == {k \in 1..Len(Entities) : At(s, p, Entities[k][1])}
    IN  IF At(s, p, T("&#")) /\ p + 2 <= Len(s) THEN GetReference(s, p, enc)
        ELSE IF known = {} THEN <<p + 1, <<>>>>
        ELSE LET e == Entities[CHOOSE k \in known : TRUE] IN <<p + Len(e[1]), <<e[2]>>>>

ByteLength(c) == CASE c < 194 -> 1 [] c \in 194..223 -> 2 [] c \in 224..239 -> 3
                   [] c \in 240..244 -> 4 [] OTHER -> 1
GetChar(s, p, enc) ==
    LET length == IF enc = "UTF8" THEN ByteLength(s[p]) ELSE 1
    IN  IF s[p] = C("&") THEN GetEntity(s, p, enc)
        ELSE <<p + length, SubSeq(s, p, Min({p + length - 1, Len(s)}))>>

(* Text up to endTag; where trimmed, white space is one blank between      *)
(* words and none at the ends.                                             *)
RECURSIVE ReadChars(_, _, _, _, _, _, _)
ReadChars(s, p, endTag, trim, enc, text, blank) ==
    LET Then(got, before) == ReadChars(s, got[1], endTag, trim, enc, before \o got[2], FALSE)
    IN  IF ~Live(s, p) \/ At(s, p, endTag) THEN <<p, text>>
        ELSE IF trim /\ IsSpace(s[p]) THEN ReadChars(s, p + 1, endTag, trim, enc, text, TRUE)
        ELSE Then(GetChar(s, p, enc), IF blank THEN Append(text, SP) ELSE text)

AfterText(s, read, endTag) ==
    <<IF Live(s, read[1]) THEN Or0(s, read[1] + Len(endTag)) ELSE 0, read[2]>>
ReadText(s, p, endTag, trim, enc) ==
    LET trims == trim /\ Condense
    IN  AfterText(s, ReadChars(s, IF trims THEN SkipWhite(s, p, enc) ELSE p, endTag, trims, enc,
                               <<>>, FALSE), endTag)

-----------------------------------------------------------------------------
(* Reading: one Parse per kind of node.  Each answers the position it      *)
(* stopped at, the node, and the document's error: <<>> or the first error *)
(* set, which later ones do not replace, with its position or 0.           *)
SetError(err, id, p) == IF err = <<>> THEN <<id, p>> ELSE err

Identify(s, p, enc) ==
    CASE ~Live(s, p) \/ s[p] # C("<") -> "none"
      [] AtAnyCase(s, p, T("<?xml")) -> "declaration"
      [] At(s, p, T("<!--")) -> "comment"
      [] At(s, p, T("<![CDATA[")) -> "cdata"
      [] p < Len(s) /\ (IsLetter(s[p + 1]) \/ s[p + 1] = C("_")) -> "element"
      [] OTHER -> "unknown"

(* A comment, a CDATA section and a <...> nobody knows end where their end *)
(* tag is, or silently with the text.                                      *)
UpTo(s, p, endTag) == IF Find(s, p, endTag) # 0 THEN Find(s, p, endTag) ELSE Len(s) + 1
Past(s, p, endTag) == IF Live(s, p) THEN p + Len(endTag) ELSE p

ParseUnknown(s, p, err) ==
    LET end == UpTo(s, p + 1, T(">"))
    IN  <<Past(s, end, T(">")), XLeaf("unknown", Slice(s, p + 1, end)), err>>

ParseComment(s, p, err) ==
    LET end == UpTo(s, p + 4, T("-->"))
    IN  <<Past(s, end, T("-->")), XLeaf("comment", Slice(s, p + 4, end)), err>>

ParseCData(s, p, enc, err) ==
    LET end == UpTo(s, p + 9, T("]]>"))
    IN  <<ReadText(s, end, T("]]>"), FALSE, enc)[1],
          XLeaf("cdata", Slice(s, p + 9, end)), err>>

BeforeEndTag(read, err) ==
    <<IF read[1] = 0 THEN 0 ELSE read[1] - 1, XLeaf("text", read[2]), err>>
ParseText(s, p, enc, err) == BeforeEndTag(ReadText(s, p, T("<"), TRUE, enc), err)
Blank(n) == \A i \in 1..Len(n.value) : IsSpace(n.value[i])

(* A value without quotes goes up to the tag's end, to white space or to a *)
(* "/", and its references are not decoded.                                *)
ParseBareValue(s, p) ==
    LET end == Scan(s, p, LAMBDA c : IsSpace(c) \/ c \in {C("/"), C(">"), C("'"), C("\"")})
    IN  IF Live(s, end) /\ s[end] \in {C("'"), C("\"")} THEN <<0, Slice(s, p, end), end>>
        ELSE <<end, Slice(s, p, end)>>

(* The steps of TiXmlAttribute::Parse, the last one first.                 *)
AttributeError(name, err, at) == <<0, <<name, <<>>>>, SetError(err, "READING_ATTRIBUTES", at)>>
WithValue(name, value, err) ==
    <<value[1], <<name, value[2]>>,
      IF Len(value) = 3 THEN SetError(err, "READING_ATTRIBUTES", value[3]) ELSE err>>
AtValue(s, p, name, enc, err) ==
    CASE ~Live(s, p) -> AttributeError(name, err, p)
      [] Live(s, p) /\ s[p] \in {C("'"), C("\"")} ->
            WithValue(name, ReadText(s, p + 1, <<s[p]>>, FALSE, enc), err)
      [] OTHER -> WithValue(name, ParseBareValue(s, p), err)
AtEquals(s, p, name, enc, err) ==
    IF ~Live(s, p) \/ s[p] # C("=") THEN AttributeError(name, err, p)
    ELSE AtValue(s, SkipWhite(s, p + 1, enc), name, enc, err)
AfterName(s, p, name, enc, err) ==
    IF ~Live(s, name[1]) THEN AttributeError(name[2], err, p)
    ELSE AtEquals(s, SkipWhite(s, name[1], enc), name[2], enc, err)
AtName(s, p, enc, err) == IF ~Live(s, p) THEN <<0, <<<<>>, <<>>>>, err>>
                          ELSE AfterName(s, p, ReadName(s, p), enc, err)
ParseAttribute(s, start, enc, err) == AtName(s, SkipWhite(s, start, enc), enc, err)

(* The fields of a declaration are read with attributes that belong to no  *)
(* document: what is wrong with them is not reported.                      *)
FieldNames == <<T("version"), T("encoding"), T("standalone")>>
RECURSIVE ParseFields(_, _, _, _)
TakeField(s, attr, enc, fields, i) ==
    ParseFields(s, attr[1], enc, [fields EXCEPT ![i] = attr[2][2]])
FieldAt(s, p, enc, fields, here) ==
    IF here = {} THEN ParseFields(s, Scan(s, p, LAMBDA c : c = C(">") \/ IsSpace(c)), enc, fields)
    ELSE TakeField(s, ParseAttribute(s, p, enc, <<>>), enc, fields, CHOOSE i \in here : TRUE)
ParseFields(s, p, enc, fields) ==
    LET At_(q) == FieldAt(s, q, enc, fields, {i \in 1..3 : AtAnyCase(s, q, FieldNames[i])})
    IN  IF ~Live(s, p) THEN <<0, fields>>
        ELSE IF s[p] = C(">") THEN <<p + 1, fields>>
        ELSE At_(SkipWhite(s, p, enc))

WithFields(read, err) == <<read[1], XNode("declaration", <<>>, read[2], <<>>), err>>
ParseDeclaration(s, p, enc, err) ==
    WithFields(ParseFields(s, p + 5, enc, <<<<>>, <<>>, <<>>>>), err)

RECURSIVE ParseNode(_, _, _, _), ReadContents(_, _, _, _, _), ParseTag(_, _, _, _, _)
NamedElement(s, p, name, enc, err) ==
    IF Live(s, name[1]) THEN ParseTag(s, name[1], XLeaf("element", name[2]), enc, err)
    ELSE <<0, XLeaf("element", name[2]), SetError(err, "FAILED_TO_READ_ELEMENT_NAME", p)>>
ElementFrom(s, p, enc, err) == NamedElement(s, p, ReadName(s, p), enc, err)
ParseNode(s, p, enc, err) ==
    LET kind_ == Identify(s, p, enc)
    IN  CASE kind_ = "declaration" -> ParseDeclaration(s, p, enc, err)
          [] kind_ = "comment" -> ParseComment(s, p, err)
          [] kind_ = "cdata" -> ParseCData(s, p, enc, err)
          [] kind_ = "unknown" -> ParseUnknown(s, p, err)
          [] OTHER -> ElementFrom(s, SkipWhite(s, p + 1, enc), enc, err)

(* The rest of an element after its name: attributes, then the end of an   *)
(* empty tag, or the contents and the end tag.                             *)
Failed(n, err, id, at) == <<0, n, SetError(err, id, at)>>
CloseTag(s, p, n, err) ==
    IF ~Live(s, p) \/ s[p] # C(">") THEN Failed(n, err, "READING_END_TAG", p) ELSE <<p + 1, n, err>>
AtEndTag_Mutation(s, inside, n, enc) ==            \* any name closes the element
    IF ~Live(s, inside[1]) THEN Failed(inside[2], inside[3], "READING_END_TAG", inside[1])
    ELSE CloseTag(s, SkipWhite(s, inside[1] + Len(EndTag(n)) - 1, enc), inside[2], inside[3])
AtEndTag(s, inside, n, enc) ==
    IF ~Live(s, inside[1]) \/ ~At(s, inside[1], T("</") \o n.value)
    THEN Failed(inside[2], inside[3], "READING_END_TAG", inside[1])
    ELSE CloseTag(s, SkipWhite(s, inside[1] + Len(EndTag(n)) - 1, enc), inside[2], inside[3])
TakeAttribute(s, p, n, attr, enc) ==
    IF ~Live(s, attr[1]) \/ \E i \in 1..Len(n.attrs) : n.attrs[i][1] = attr[2][1]
    THEN Failed(n, attr[3], "PARSING_ELEMENT", p)
    ELSE ParseTag(s, attr[1], [n EXCEPT !.attrs = Append(@, attr[2])], enc, attr[3])
InTag(s, start, p, n, enc, err) ==
    CASE ~Live(s, p) -> Failed(n, err, "READING_ATTRIBUTES", start)
      [] Live(s, p) /\ s[p] = C("/") ->
            IF At(s, p + 1, T(">")) THEN <<p + 2, n, err>> ELSE Failed(n, err, "PARSING_EMPTY", p + 1)
      [] Live(s, p) /\ s[p] = C(">") -> AtEndTag(s, ReadContents(s, p + 1, n, enc, err), n, enc)
      [] OTHER -> TakeAttribute(s, p, n, ParseAttribute(s, p, enc, err), enc)
ParseTag(s, start, n, enc, err) == InTag(s, start, SkipWhite(s, start, enc), n, enc, err)

(* The contents of an element: every child is linked, one that failed too, *)
(* but a blank text.                                                       *)
TakeText(s, text, n, enc) ==
    ReadContents(s, text[1], IF Blank(text[2]) THEN n ELSE WithKid(n, text[2]), enc, text[3])
TakeChild(s, child, n, enc) == ReadContents(s, child[1], WithKid(n, child[2]), enc, child[3])
Contents_(s, start, p, n, enc, err) ==
    CASE ~Live(s, p) -> <<p, n, IF p = 0 THEN SetError(err, "READING_ELEMENT_VALUE", 0) ELSE err>>
      [] Live(s, p) /\ s[p] # C("<") ->
            TakeText(s, ParseText(s, IF Condense THEN p ELSE start, enc, err), n, enc)
      [] At(s, p, T("</")) -> <<p, n, err>>
      [] OTHER -> TakeChild(s, ParseNode(s, p, enc, err), n, enc)
ReadContents(s, start, n, enc, err) == Contents_(s, start, SkipWhite(s, start, enc), n, enc, err)

(* The top level ends, without an error, at the first thing that is no     *)
(* node.  A declaration decides the encoding of what follows it.           *)
EncodingOf(n) ==
    IF n.attrs[2] = <<>> \/ \E name \in {T("UTF-8"), T("UTF8")} : AtAnyCase(n.attrs[2], 1, name)
    THEN "UTF8" ELSE "LEGACY"

RECURSIVE ParseTop(_, _, _, _, _)
TakeTop(s, got, doc, enc) ==
    ParseTop(s, SkipWhite(s, got[1], enc), WithKid(doc, got[2]), enc, got[3])
EncodingAfter(n, enc) == IF enc = "UNKNOWN" /\ n.type = "declaration" THEN EncodingOf(n) ELSE enc
ParseTop(s, p, doc, enc, err) ==
    LET Then(got) == TakeTop(s, got, doc, EncodingAfter(got[2], enc))
    IN  IF Identify(s, p, enc) = "none" THEN <<p, doc, err>> ELSE Then(ParseNode(s, p, enc, err))

Parsed(read, bom) ==
    [doc |-> read[2], bom |-> bom,
     error |-> IF read[2].kids = <<>> THEN SetError(read[3], "DOCUMENT_EMPTY", 0) ELSE read[3]]
ParseDocument(s, encoding) ==
    LET bom == encoding = "UNKNOWN" /\ At(s, 1, ByteOrderMark)
        enc == IF bom THEN "UTF8" ELSE encoding
    IN  Parsed(ParseTop(s, SkipWhite(s, 1, enc), XLeaf("document", <<>>), enc, <<>>), bom)

(* LoadFile: CR LF and CR alone become LF before the text is parsed.       *)
NormalizeEol(s) ==
    Concat([i \in 1..Len(s) |-> IF s[i] = CR THEN <<NL>>
                                ELSE IF s[i] = NL /\ i > 1 /\ s[i - 1] = CR THEN <<>>
                                ELSE <<s[i]>>])
Load(file) == ParseDocument(NormalizeEol(file), "UNKNOWN")

(* The row and column Stamp gives a position, both from 0.                 *)
RECURSIVE Stamp(_, _, _, _)
Stamp(s, now, p, at) ==
    IF p >= now \/ p > Len(s) THEN at
    ELSE CASE s[p] \in {NL, CR} ->
                LET other == NL + CR - s[p]
                IN  Stamp(s, now, IF At(s, p + 1, <<other>>) THEN p + 2 ELSE p + 1,
                          <<at[1] + 1, 0>>)
           [] s[p] = 9 -> Stamp(s, now, p + 1, <<at[1], (at[2] \div TabSize + 1) * TabSize>>)
           [] OTHER -> Stamp(s, now, p + 1, <<at[1], at[2] + 1>>)
ErrorLocation(s, p) == IF p = 0 \/ TabSize < 1 THEN <<-1, -1>> ELSE Stamp(s, p, 1, <<0, 0>>)
=============================================================================
