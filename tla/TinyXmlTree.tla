---------------------------- MODULE TinyXmlTree ----------------------------
(***************************************************************************)
(* What is asked of the nodes of TinyXML: the walks along their links,     *)
(* the calls a clone is made by, and the typed values of attributes.       *)
(***************************************************************************)
EXTENDS TinyXmlText

RECURSIVE Forward(_, _), Backward(_, _)
Forward(h, i) == IF i = Null THEN <<>> ELSE <<i>> \o Forward(h, h[i].next)
Backward(h, i) == IF i = Null THEN <<>> ELSE <<i>> \o Backward(h, h[i].prev)
Children(h, i) == Forward(h, h[i].firstChild)

(* Clone makes a node, copies what it holds and links clones of the        *)
(* children.                                                               *)
RECURSIVE CloneByCalls(_, _), CopyChildren(_, _, _)
CloneByCalls(h, i) ==
    LET at == CHOOSE at \in Unused(h) : TRUE
    IN  <<CopyChildren(New(h, at, CloneNode(h[i])), Children(h, i), at), at>>
CopyChildren(h, children, to) ==
    IF children = <<>> THEN h
    ELSE LET made == CloneByCalls(h, Head(children))
         IN  CopyChildren(Link(made[1], to, made[2]), Tail(children), to)

(* Typed access: an int is what sscanf reads at the front of the value; a  *)
(* bool is told by the word the value starts with, in any case.  An empty  *)
(* value fails StringEqual's assert.                                       *)
Answer(result, value) == [result |-> result, value |-> value]
QueryIntValue(value) ==
    LET from == Scan(value, 1, LAMBDA c : ~IsSpace(c))
        sign == from <= Len(value) /\ value[from] \in {C("-"), C("+")}
        first == IF sign THEN from + 1 ELSE from
        digits == Slice(value, first, Scan(value, first, LAMBDA c : ~IsDigit(c)))
    IN  IF digits = <<>> THEN Answer("WRONG_TYPE", 0)
        ELSE Answer("SUCCESS", IF value[from] = C("-") THEN -Number(digits) ELSE Number(digits))
QueryBoolValue(value) ==
    LET Starts(words) == \E word \in words : AtAnyCase(value, 1, T(word))
    IN  CASE value = <<>> -> Answer("ASSERT", 0)
          [] Starts({"true", "yes", "1"}) -> Answer("SUCCESS", 1)
          [] ~Starts({"true", "yes", "1"}) /\ Starts({"false", "no", "0"}) -> Answer("SUCCESS", 0)
          [] OTHER -> Answer("WRONG_TYPE", 0)
QueryIntAttribute(attrs, name) ==
    LET found == FindAttribute(attrs, name)
    IN  IF found = <<>> THEN Answer("NO_ATTRIBUTE", 0) ELSE QueryIntValue(found[1])
QueryBoolAttribute(attrs, name) ==
    LET found == FindAttribute(attrs, name)
    IN  IF found = <<>> THEN Answer("NO_ATTRIBUTE", 0) ELSE QueryBoolValue(found[1])
SetIntValue(n) == IF n < 0 THEN T("-") \o Decimal(-n, 1) ELSE Decimal(n, 1)
SetIntAttribute(attrs, name, n) == SetAttribute(attrs, <<name, SetIntValue(n)>>)

-----------------------------------------------------------------------------
(* Looking around.  values is {} in the calls without a value.             *)
Matches(h, i, values, element) == /\ values = {} \/ h[i].value \in values
                                  /\ element => h[i].type = "element"
RECURSIVE Seek(_, _, _, _, _)
Seek(h, i, link, values, element) ==
    IF i = Null \/ Matches(h, i, values, element) THEN i
    ELSE Seek(h, h[i][link], link, values, element)

FirstChild(h, i, values) == Seek(h, h[i].firstChild, "next", values, FALSE)
LastChild(h, i, values) == Seek(h, h[i].lastChild, "prev", values, FALSE)
NextSibling(h, i, values) == Seek(h, h[i].next, "next", values, FALSE)
PreviousSibling(h, i, values) == Seek(h, h[i].prev, "prev", values, FALSE)
FirstChildElement(h, i, values) == Seek(h, h[i].firstChild, "next", values, TRUE)
NextSiblingElement(h, i, values) == Seek(h, h[i].next, "next", values, TRUE)
IterateChildren(h, i, values, previous) ==
    IF previous = Null THEN FirstChild(h, i, values) ELSE NextSibling(h, previous, values)

RECURSIVE GetDocument(_, _)
GetDocument(h, i) == IF i = Null \/ h[i].type = "document" THEN i
                     ELSE GetDocument(h, h[i].parent)

GetText(h, i) == LET child == h[i].firstChild
                 IN  IF child # Null /\ h[child].type \in {"text", "cdata"}
                     THEN <<h[child].value>> ELSE <<>>

(* TiXmlHandle: a null node stays null.                                    *)
RECURSIVE Skip(_, _, _, _, _)
Skip(h, i, values, element, count) ==
    IF i = Null \/ count = 0 THEN i
    ELSE Skip(h, Seek(h, h[i].next, "next", values, element), values, element, count - 1)
HandleChild(h, i, values, count) ==
    IF i = Null THEN Null ELSE Skip(h, FirstChild(h, i, values), values, FALSE, count)
HandleChildElement(h, i, values, count) ==
    IF i = Null THEN Null ELSE Skip(h, FirstChildElement(h, i, values), values, TRUE, count)

RECURSIVE TreeOf(_, _)
TreeOf(h, i) == LET c == Children(h, i)
                IN  XNode(h[i].type, h[i].value, h[i].attrs, [k \in 1..Len(c) |-> TreeOf(h, c[k])])
=============================================================================
