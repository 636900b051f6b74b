------------------------------ MODULE XmlLinks ------------------------------
(***************************************************************************)
(* The nodes of TinyXML at the level of their pointers.  A heap maps the   *)
(* nodes that are allocated to what they hold and to their five links; 0   *)
(* is the null pointer.  A node takes a free place of the memory by new    *)
(* and Clone and gives it back by delete, so that following a link to a    *)
(* deleted node is an error of the model, as it is in the code.            *)
(*                                                                         *)
(* Nothing here is recursive: what a destructor takes down is the least    *)
(* set it reaches along the links, and a clone is the copy that the calls  *)
(* of Clone leave (TinyXmlTree has those calls).                           *)
(***************************************************************************)
EXTENDS Integers, SequencesExt

CONSTANT MaxNodes       \* bound: nodes allocated at once
ASSUME XmlLinksAssumption == MaxNodes \in Nat \ {0}

Null == 0
Places == 1..MaxNodes
Unused(h) == Places \ DOMAIN h

NodeOf(n) == [type |-> n.type, value |-> n.value, attrs |-> n.attrs, parent |-> Null,
              firstChild |-> Null, lastChild |-> Null, prev |-> Null, next |-> Null]

(* Next() takes an attribute with neither name nor value for the sentinel  *)
(* that closes the ring: a walk over an element's attributes ends there.   *)
Visited(attrs) ==
    LET ends == {k \in 2..Len(attrs) : attrs[k] = <<<<>>, <<>>>>}
    IN  IF ends = {} THEN attrs ELSE SubSeq(attrs, 1, Min(ends) - 1)

(* What CopyTo hands on.                                                   *)
Carried(n) == IF n.type = "element" THEN Visited(n.attrs) ELSE n.attrs

New(h, at, n) == [i \in DOMAIN h \cup {at} |-> IF i = at THEN n ELSE h[i]]

Set(h, i, link, to) == IF i = Null THEN h ELSE [h EXCEPT ![i] = [@ EXCEPT ![link] = to]]

(* ~TiXmlNode walks from the first child along next and deletes each, and  *)
(* so on below them; Clear does the same and keeps the node.               *)
Reaches(h, i, S) == /\ h[i].firstChild \in S \cup {Null}
                    /\ \A j \in S : /\ h[j].firstChild \in S \cup {Null}
                                    /\ h[j].next \in S \cup {Null}
Below(h, i) == {j \in DOMAIN h : \A S \in SUBSET DOMAIN h : Reaches(h, i, S) => j \in S}
Without(h, gone) == [j \in DOMAIN h \ gone |-> h[j]]
Delete(h, i) == Without(h, {i} \cup Below(h, i))
ClearNode(h, i) == LET left == Without(h, Below(h, i))
                   IN  Set(Set(left, i, "firstChild", Null), i, "lastChild", Null)

Link(h, parent, i) ==
    LET last == h[parent].lastChild
        linked == Set(Set(Set(h, i, "parent", parent), i, "prev", last), i, "next", Null)
    IN  Set(IF last # Null THEN Set(linked, last, "next", i)
            ELSE Set(linked, parent, "firstChild", i), parent, "lastChild", i)

(* The places a copy of what is below from may take, the node that stands  *)
(* for from being one of tops; and the copy, which holds what is carried   *)
(* over and is linked within itself as the original is.                    *)
Placings(h, from, tops) ==
    {m \in [{from} \cup Below(h, from) -> Places] :
        /\ m[from] \in tops
        /\ \A j \in Below(h, from) : m[j] \in Unused(h)
        /\ \A j, k \in DOMAIN m : m[j] = m[k] => j = k}
Image(m, i) == IF i = Null THEN Null ELSE m[i]
Original(m, i) == CHOOSE j \in DOMAIN m : m[j] = i
CopyOf(n, m) == [n EXCEPT !.attrs = Carried(n),
                          !.parent = Image(m, @), !.prev = Image(m, @), !.next = Image(m, @),
                          !.firstChild = Image(m, @), !.lastChild = Image(m, @)]
CopyTo(h, from, m) ==
    [j \in DOMAIN h \cup Range(m) |->
        IF j = m[from]
        THEN [h[j] EXCEPT !.firstChild = Image(m, h[from].firstChild),
                          !.lastChild = Image(m, h[from].lastChild)]
        ELSE IF j \in DOMAIN h THEN h[j] ELSE CopyOf(h[Original(m, j)], m)]

(* Clone makes a node, copies to it what the node holds and what is below. *)
CloneNode(n) == NodeOf([type |-> n.type, value |-> n.value, attrs |-> Carried(n)])
Clone(h, i, m) == CopyTo(New(h, m[i], CloneNode(h[i])), i, m)

InsertedBefore(h, parent, before, i) ==
    LET prev == h[before].prev
        linked == Set(Set(Set(h, i, "parent", parent), i, "next", before), i, "prev", prev)
    IN  Set(IF prev # Null THEN Set(linked, prev, "next", i)
            ELSE Set(linked, parent, "firstChild", i), before, "prev", i)

InsertedAfter_Mutation(h, parent, after, i) ==     \* lastChild stays
    LET next == h[after].next
        linked == Set(Set(Set(h, i, "parent", parent), i, "prev", after), i, "next", next)
    IN  Set(Set(linked, next, "prev", i), after, "next", i)
InsertedAfter(h, parent, after, i) ==
    LET next == h[after].next
        linked == Set(Set(Set(h, i, "parent", parent), i, "prev", after), i, "next", next)
    IN  Set(IF next # Null THEN Set(linked, next, "prev", i)
            ELSE Set(linked, parent, "lastChild", i), after, "next", i)

(* The links around old go to new, or around it when there is no new.      *)
Bypass(h, parent, old, forward, backward) ==
    LET next == h[old].next
        prev == h[old].prev
        back == IF next # Null THEN Set(h, next, "prev", backward)
                ELSE Set(h, parent, "lastChild", backward)
    IN  IF prev # Null THEN Set(back, prev, "next", forward)
        ELSE Set(back, parent, "firstChild", forward)

Unlink(h, parent, old) == Delete(Bypass(h, parent, old, h[old].next, h[old].prev), old)

Exchange(h, parent, old, i) ==
    LET linked == Set(Set(h, i, "next", h[old].next), i, "prev", h[old].prev)
    IN  Set(Delete(Bypass(linked, parent, old, i, i), old), i, "parent", parent)

(* AttributeSet: Add at the end, Remove, Find by name.                     *)
Held(attrs, name) == {k \in 1..Len(attrs) : attrs[k][1] = name}
FindAttribute(attrs, name) == IF Held(attrs, name) = {} THEN <<>>
                              ELSE <<attrs[Min(Held(attrs, name))][2]>>
SetAttribute(attrs, a) == IF Held(attrs, a[1]) = {} THEN Append(attrs, a)
                          ELSE [attrs EXCEPT ![Min(Held(attrs, a[1]))] = a]
RemoveAttribute(attrs, name) == IF Held(attrs, name) = {} THEN attrs
                                ELSE RemoveAt(attrs, Min(Held(attrs, name)))
=============================================================================
