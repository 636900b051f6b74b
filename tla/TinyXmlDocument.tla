-------------------------- MODULE TinyXmlDocument --------------------------
(***************************************************************************)
(* A program that uses TinyXML: it builds a document, one call at a time,  *)
(* or it reads a text, one token more at a time.                           *)
(***************************************************************************)
EXTENDS TinyXmlTree, XmlBuild

CONSTANTS XmlTokens,    \* tokens of the texts that are read
          MaxXmlTokens  \* bound: tokens of a text

VARIABLES topOnly,  \* the document has the error of a document below the top
          xmlInput  \* the tokens of the text to read

xmlVars == <<buildXmlVars, topOnly, xmlInput>>

XmlInit == XmlBuildInit /\ topOnly = FALSE /\ xmlInput = <<>>

EditsTree == xmlInput = <<>>
Edit == EditsTree /\ XmlBuildNext /\ UNCHANGED <<topOnly, xmlInput>>

(* No call puts a document below a node: the node's document, if it is in  *)
(* one, gets the error.                                                    *)
InsertDocument(p) ==
    /\ EditsTree /\ p \in Containers
    /\ topOnly' = (topOnly \/ GetDocument(heap, p) # Null)
    /\ UNCHANGED <<buildXmlVars, xmlInput>>

(* The reference reader works on the tokens: a stack of the open elements, *)
(* the document at its bottom.  At the top level a text ends the reading   *)
(* and an end tag is a node like another.                                  *)
Opened == [stack |-> <<XLeaf("document", <<>>)>>, fails |-> FALSE, stops |-> FALSE]
WithText(n, blank, word) ==
    IF n.kids # <<>> /\ Last(n.kids).type = "text"
    THEN [n EXCEPT !.kids[Len(n.kids)].value = @ \o blank \o word]
    ELSE WithKid(n, XLeaf("text", word))
Take(r, tok) ==
    LET depth == Len(r.stack)
        put(n) == [r EXCEPT !.stack[depth] = n]
        kid(n) == put(WithKid(r.stack[depth], n))
    IN  CASE r.fails \/ r.stops -> r
          [] tok = "\n&lt;" -> IF depth = 1 THEN [r EXCEPT !.stops = TRUE]
                               ELSE put(WithText(r.stack[depth], <<SP>>, T("<")))
          [] tok = "<![CDATA[ ]&]]>" -> kid(XLeaf("cdata", T(" ]&")))
          [] tok = "<!--c-->" -> kid(XLeaf("comment", T("c")))
          [] tok = "<?xml version='1'?>" -> kid(XNode("declaration", <<>>, <<T("1"), <<>>, <<>>>>, <<>>))
          [] tok = "<b k='\"'/>" -> kid(XNode("element", T("b"), <<<<T("k"), T("\"")>>>>, <<>>))
          [] tok \in {"<a>", "<b>"} -> [r EXCEPT !.stack = Append(@, XLeaf("element", <<T(tok)[2]>>))]
          [] depth = 1 -> kid(XLeaf("unknown", T("/a")))
          [] r.stack[depth].value = T("a") ->
               [r EXCEPT !.stack = Append(SubSeq(@, 1, depth - 2),
                                          WithKid(@[depth - 1], @[depth]))]
          [] OTHER -> [r EXCEPT !.fails = TRUE]

XmlSource(toks) == Concat([i \in 1..Len(toks) |-> T(toks[i])])
XmlRead(toks) == Load(XmlSource(toks))
Expected == FoldLeft(Take, Opened, xmlInput)

(* A text grows while the reader reads on.                                 *)
AddXmlToken(tok) ==
    /\ Nodes = {Doc} /\ ~topOnly /\ Len(xmlInput) < MaxXmlTokens
    /\ ~Expected.fails /\ ~Expected.stops
    /\ xmlInput' = Append(xmlInput, tok)
    /\ UNCHANGED <<buildXmlVars, topOnly>>

XmlNext == \/ Edit
           \/ \E p \in Nodes : InsertDocument(p)
           \/ \E tok \in XmlTokens : AddXmlToken(tok)

-----------------------------------------------------------------------------
ValuesIn == {{}} \cup {{heap[i].value} : i \in Nodes}
Chosen(p, values, element) == SelectSeq(kids[p], LAMBDA c : Matches(heap, c, values, element))
AfterIn(q, k, values, element) == SelectSeq(SubSeq(q, k + 1, Len(q)),
                                           LAMBDA c : Matches(heap, c, values, element))
BeforeIn(q, k, values) == SelectSeq(SubSeq(q, 1, k - 1), LAMBDA c : Matches(heap, c, values, FALSE))

(* Every way to look for a child or a sibling finds the one the sequence   *)
(* has there.                                                              *)
LookupsAgree ==
    \A p \in Nodes, values \in ValuesIn :
        LET all == Chosen(p, values, FALSE)
            elements == Chosen(p, values, TRUE)
        IN  /\ FirstChild(heap, p, values) = EntryOr0(all, 1)
            /\ LastChild(heap, p, values) = EntryOr0(all, Len(all))
            /\ FirstChildElement(heap, p, values) = EntryOr0(elements, 1)
            /\ \A n \in 0..MaxNodes :
                  /\ HandleChild(heap, p, values, n) = EntryOr0(all, n + 1)
                  /\ HandleChildElement(heap, p, values, n) = EntryOr0(elements, n + 1)
            /\ \A k \in 1..Len(kids[p]) :
                  LET c == kids[p][k]
                      before == BeforeIn(kids[p], k, values)
                  IN  /\ NextSibling(heap, c, values) = EntryOr0(AfterIn(kids[p], k, values, FALSE), 1)
                      /\ IterateChildren(heap, p, values, c) = NextSibling(heap, c, values)
                      /\ PreviousSibling(heap, c, values) = EntryOr0(before, Len(before))
                      /\ NextSiblingElement(heap, c, values)
                            = EntryOr0(AfterIn(kids[p], k, values, TRUE), 1)
            /\ GetText(heap, p) = IF kids[p] # <<>> /\ IsText(heap[kids[p][1]])
                                  THEN <<heap[kids[p][1]].value>> ELSE <<>>
            /\ GetDocument(heap, p) = IF p \in {Doc} \cup Below(heap, Doc) THEN Doc ELSE Null

(* The calls of Clone leave a copy, a tree of its own that holds the same  *)
(* if no element has an attribute without name and value after its first.  *)
ClonesAgree ==
    \A i \in Nodes : CanClone(i) =>
        LET made == CloneByCalls(heap, i)
        IN  /\ \E m \in Placings(heap, i, Unused(heap)) : made = <<Clone(heap, i, m), m[i]>>
            /\ (\A j \in {i} \cup Below(heap, i) : Carried(heap[j]) = heap[j].attrs)
                  => TreeOf(made[1], made[2]) = TreeOf(heap, i)
            /\ \A j \in Nodes : made[1][j] = heap[j]

(* An int that is set is the one read, by its name and no other, and read  *)
(* as a bool it is told by its first digit.                                *)
AttributesAgree ==
    \A i \in Nodes, a \in Attributes, n \in {-7, 0, 1, 12} :
        LET attrs == heap[i].attrs
            set == SetIntAttribute(attrs, a[1], n)
        IN  heap[i].type = "element" =>
               /\ QueryIntAttribute(set, a[1]) = Answer("SUCCESS", n)
               /\ QueryBoolAttribute(set, a[1]) =
                     IF n < 0 THEN Answer("WRONG_TYPE", 0) ELSE Answer("SUCCESS", IF n = 0 THEN 0 ELSE 1)
               /\ QueryIntAttribute(SetIntAttribute(set, Append(a[1], 0), 3), a[1])
                     = Answer("SUCCESS", n)
               /\ QueryIntAttribute(RemoveAttribute(set, a[1]), a[1]) = Answer("NO_ATTRIBUTE", 0)

(* Property TreeAnswers: after any calls the tree that the calls describe  *)
(* is what a lookup, a clone and a typed attribute answer from.            *)
TreeAnswers == LookupsAgree /\ ClonesAgree /\ AttributesAgree

-----------------------------------------------------------------------------
(* Texts.                                                                  *)
(* What a printed text keeps: words between single blanks, no two texts    *)
(* side by side, nothing that ends its own section, no attribute without a *)
(* name, and no "&#x", which is printed as it is and read as the character.*)
Words_(v) == /\ \E i \in 1..Len(v) : ~IsSpace(v[i])
             /\ v[1] # SP /\ v[Len(v)] # SP /\ Find(v, 1, T("  ")) = 0
Clean(v) == Find(v, 1, T("&#x")) = 0
RECURSIVE Preserved(_)
Preserved(n) ==
    /\ CASE n.type = "text" -> Words_(n.value) /\ Clean(n.value)
         [] n.type = "cdata" -> Find(n.value, 1, T("]]>")) = 0
         [] n.type = "comment" -> Find(n.value, 1, T("-->")) = 0
         [] OTHER -> \A i \in 1..Len(n.attrs) :
                         n.type = "element" => n.attrs[i][1] # <<>> /\ Clean(n.attrs[i][2])
    /\ \A i \in 1..Len(n.kids) :
          /\ Preserved(n.kids[i])
          /\ n.kids[i].type = "text" => /\ n.type = "element"
                                        /\ i > 1 => n.kids[i - 1].type # "text"

(* Property XmlRoundTrip: what Save writes of a document, and what the     *)
(* printer writes with and without line breaks, is read back as the same   *)
(* document and without an error, whether calls or a text made it.  (Nodes *)
(* that are not linked may be deleted first: they make no difference.)     *)
DocOf(read) == IF read.error = <<>> THEN {read.doc} ELSE {}
XmlDocuments == IF xmlInput # <<>> THEN DocOf(XmlRead(xmlInput))
                ELSE IF Roots = {} THEN {TreeOf(heap, Doc)} ELSE {}
IsRead(read, d) == read.doc = d /\ read.error = <<>>
XmlRoundTrip ==
    \A d \in {d \in XmlDocuments : d.kids # <<>> /\ Preserved(d)} :
        \A text \in {Save(d, FALSE), Save(d, TRUE),
                     Printer(d, 0, T("    "), <<NL>>), Printer(d, 0, <<>>, <<>>)} :
            IsRead(Load(text), d)

(* Property XmlReads: Load finds an error exactly in the texts that leave  *)
(* an element open or close another, or hold no node before their first    *)
(* top-level text; of the others it makes the tree they spell; and an      *)
(* error's row and column are those of a place in the text.                *)
RowAndColumn(source, at_error) ==
    LET breaks == {i \in 1..at_error - 1 : source[i] = NL}
    IN  <<Cardinality(breaks), at_error - 1 - Max(breaks \cup {0})>>
Reads(read, expected) ==
    /\ read.error # <<>> <=> \/ expected.fails \/ Len(expected.stack) > 1
                             \/ expected.stack[1].kids = <<>>
    /\ read.error = <<>> => read.doc = expected.stack[1]
    /\ read.error # <<>> /\ read.error[2] # 0 =>
          ErrorLocation(XmlSource(xmlInput), read.error[2])
              = RowAndColumn(XmlSource(xmlInput), read.error[2])
XmlReads == Reads(XmlRead(xmlInput), Expected)
=============================================================================
