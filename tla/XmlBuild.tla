------------------------------ MODULE XmlBuild ------------------------------
(***************************************************************************)
(* A program that builds a document of TinyXML, one call at a time.        *)
(*                                                                         *)
(* kids is what a reader of tinyxml.h takes the tree in heap to be: the    *)
(* sequence of the children of every node.                                 *)
(***************************************************************************)
EXTENDS XmlLinks

CONSTANTS Contents,     \* what new nodes hold
          Values,       \* texts given to SetValue
          Attributes,   \* name and value pairs given to SetAttribute
          MaxRoots      \* bound: nodes made and not linked

VARIABLES heap,     \* the nodes
          kids      \* the reference for their links

buildXmlVars == <<heap, kids>>

(* An element's attributes are pairs with distinct names.                  *)
NamesOnce(attrs) == \A k, l \in 1..Len(attrs) : attrs[k][1] = attrs[l][1] => k = l
ASSUME XmlBuildAssumption == \A n \in Contents : n.type = "element" =>
                                 n.attrs \in Seq(Range(n.attrs)) /\ NamesOnce(n.attrs)

-----------------------------------------------------------------------------
Doc == 1        \* the program's document

(* The program holds the document and the nodes it made and has not        *)
(* linked; it deletes only those, gives LinkEndChild no node that is linked*)
(* already, and assigns to no node from itself or from below itself.       *)
XmlBuildInit == /\ heap = [i \in {Doc} |-> NodeOf([type |-> "document", value |-> <<>>, attrs |-> <<>>])]
                /\ kids = [i \in {Doc} |-> <<>>]

Nodes == DOMAIN heap
Roots == {i \in Nodes : heap[i].parent = Null} \ {Doc}
Containers == {i \in Nodes : heap[i].type \in {"document", "element"}}
Loose(i, p) == i \in Roots /\ p # i /\ p \notin Below(heap, i)

(* Where a clone of i goes, and its children.                              *)
CanClone(i) == i # Doc /\ Placings(heap, i, Unused(heap)) # {}
Placing(i) == CHOOSE m \in Placings(heap, i, Unused(heap)) : TRUE
CopyKids(k, m) ==
    [j \in DOMAIN k \cup Range(m) |->
        IF j \in Range(m) THEN [n \in 1..Len(k[Original(m, j)]) |-> m[k[Original(m, j)][n]]]
        ELSE k[j]]

NewNode(n) ==
    /\ Unused(heap) # {} /\ Cardinality(Roots) < MaxRoots
    /\ LET at == CHOOSE at \in Unused(heap) : TRUE
       IN  heap' = New(heap, at, NodeOf(n)) /\ kids' = New(kids, at, <<>>)

DeleteNode(i) == /\ i \in Roots
                 /\ heap' = Delete(heap, i)
                 /\ kids' = Without(kids, {i} \cup Below(heap, i))

LinkEndChild(p, i) ==
    /\ p \in Containers /\ Loose(i, p)
    /\ heap' = Link(heap, p, i)
    /\ kids' = [kids EXCEPT ![p] = Append(@, i)]

InsertEndChild(p, i) ==
    /\ p \in Containers /\ CanClone(i)
    /\ LET m == Placing(i)
       IN  /\ heap' = Link(Clone(heap, i, m), p, m[i])
           /\ kids' = [CopyKids(kids, m) EXCEPT ![p] = Append(@, m[i])]

Position(p, c) == CHOOSE k \in 1..Len(kids[p]) : kids[p][k] = c

InsertBeforeChild(p, c, i) ==
    /\ heap[c].parent = p /\ CanClone(i)
    /\ LET m == Placing(i)
       IN  /\ heap' = InsertedBefore(Clone(heap, i, m), p, c, m[i])
           /\ kids' = [CopyKids(kids, m) EXCEPT ![p] = InsertAt(@, Position(p, c), m[i])]

InsertAfterChild(p, c, i) ==
    /\ heap[c].parent = p /\ CanClone(i)
    /\ LET m == Placing(i)
       IN  /\ heap' = InsertedAfter(Clone(heap, i, m), p, c, m[i])
           /\ kids' = [CopyKids(kids, m) EXCEPT ![p] = InsertAt(@, Position(p, c) + 1, m[i])]

ReplaceChild(p, c, i) ==
    /\ heap[c].parent = p /\ CanClone(i)
    /\ LET m == Placing(i)
           known == [CopyKids(kids, m) EXCEPT ![p] = [@ EXCEPT ![Position(p, c)] = m[i]]]
       IN  /\ heap' = Exchange(Clone(heap, i, m), p, c, m[i])
           /\ kids' = Without(known, {c} \cup Below(heap, c))

RemoveChild(p, c) ==
    /\ heap[c].parent = p
    /\ heap' = Unlink(heap, p, c)
    /\ kids' = Without([kids EXCEPT ![p] = RemoveAt(@, Position(p, c))], {c} \cup Below(heap, c))

(* Clear; an element's operator= from another clears it first and drops    *)
(* its attributes.                                                         *)
ClearedKids(p) == [Without(kids, Below(heap, p)) EXCEPT ![p] = <<>>]
ClearChildren(p) == /\ p \in Containers
                    /\ heap' = ClearNode(heap, p)
                    /\ kids' = ClearedKids(p)

AssignNode(to, from) ==
    /\ to # from /\ heap[to].type = heap[from].type
    /\ from \notin Below(heap, to) /\ to \notin Below(heap, from)
    /\ LET same == [ClearNode(heap, to) EXCEPT ![to] = [@ EXCEPT !.value = heap[from].value,
                                                                !.attrs = Carried(heap[from])]]
           m == CHOOSE m \in Placings(same, from, {to}) : TRUE
       IN  /\ Placings(same, from, {to}) # {}
           /\ heap' = CopyTo(same, from, m)
           /\ kids' = CopyKids(ClearedKids(to), m)

SetValueOf(i, value) == /\ heap[i].type = "element"
                        /\ heap' = [heap EXCEPT ![i].value = value]
                        /\ UNCHANGED kids

SetAttributeOf(i, a) == /\ heap[i].type = "element"
                        /\ heap' = [heap EXCEPT ![i].attrs = SetAttribute(@, a)]
                        /\ UNCHANGED kids

RemoveAttributeOf(i, name) == /\ heap[i].type = "element"
                              /\ heap' = [heap EXCEPT ![i].attrs = RemoveAttribute(@, name)]
                              /\ UNCHANGED kids

XmlBuildNext ==
    \/ \E n \in Contents : NewNode(n)
    \/ \E i \in Nodes : \/ DeleteNode(i)
                        \/ ClearChildren(i)
                        \/ \E value \in Values : SetValueOf(i, value)
                        \/ \E a \in Attributes : SetAttributeOf(i, a) \/ RemoveAttributeOf(i, a[1])
    \/ \E p, i \in Nodes : \/ LinkEndChild(p, i)
                           \/ InsertEndChild(p, i)
                           \/ RemoveChild(p, i)
                           \/ AssignNode(p, i)
    \/ \E p, c, i \in Nodes : \/ InsertBeforeChild(p, c, i)
                              \/ InsertAfterChild(p, c, i)
                              \/ ReplaceChild(p, c, i)

XmlBuildSpec == XmlBuildInit /\ [][XmlBuildNext]_buildXmlVars

-----------------------------------------------------------------------------
(* Property LinksAgree: after any calls the links in both directions give  *)
(* the children a reader expects, each once and with its parent; a node    *)
(* that is no root is its parent's child; every node can be reached from   *)
(* the document or from one the program holds, so that each is deleted     *)
(* once; and no element has an attribute twice.                            *)
EntryOr0(q, k) == IF k \in 1..Len(q) THEN q[k] ELSE Null
Row(h, p, q) ==
    /\ h[p].firstChild = EntryOr0(q, 1)
    /\ h[p].lastChild = EntryOr0(q, Len(q))
    /\ \A k \in 1..Len(q) : /\ h[q[k]].parent = p
                            /\ h[q[k]].next = EntryOr0(q, k + 1)
                            /\ h[q[k]].prev = EntryOr0(q, k - 1)
                            /\ \A l \in 1..k - 1 : q[l] # q[k]
LinksAgree ==
    /\ \A p \in Nodes : Row(heap, p, kids[p])
    /\ \A i \in Nodes : heap[i].parent = Null \/ i \in Range(kids[heap[i].parent])
    /\ Nodes = {Doc} \cup Roots \cup UNION {Below(heap, i) : i \in {Doc} \cup Roots}
    /\ \A i \in Nodes : heap[i].type = "element" => NamesOnce(heap[i].attrs)
=============================================================================
