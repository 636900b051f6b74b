------------------------------- MODULE Chars -------------------------------
(***************************************************************************)
(* Texts for the modules whose subject is text (JSON, XML, string_util): a *)
(* text is a sequence of character codes 0..255, as the code's char arrays *)
(* are, and T turns a literal of the source into one.  The classes below   *)
(* are the C library's, in the "C" locale the programs run in.             *)
(***************************************************************************)
EXTENDS Integers, SequencesExt

LOCAL Ascii == " !\"#$%&'()*+,-./0123456789:;<=>?@ABCDEFGHIJKLMNOPQRSTUVWXYZ[\\]^_"
LOCAL Lower == "abcdefghijklmnopqrstuvwxyz{|}~"

LOCAL CodeOf ==
    [c \in {SubSeq(Ascii, i, i) : i \in 1..64} \cup {SubSeq(Lower, i, i) : i \in 1..30}
           \cup {"\t", "\n", "\f", "\r"} |->
        CASE c = "\t" -> 9 [] c = "\n" -> 10 [] c = "\f" -> 12 [] c = "\r" -> 13
          [] \E i \in 1..64 : SubSeq(Ascii, i, i) = c ->
                31 + CHOOSE i \in 1..64 : SubSeq(Ascii, i, i) = c
          [] OTHER -> 96 + CHOOSE i \in 1..30 : SubSeq(Lower, i, i) = c]

T(s) == [i \in 1..Len(s) |-> CodeOf[SubSeq(s, i, i)]]
C(c) == CodeOf[c]

NUL == 0
BS  == 8
NL  == 10
CR  == 13
SP  == 32

IsDigit(c) == c \in 48..57
IsAlpha(c) == c \in 65..90 \cup 97..122
IsSpace(c) == c \in 9..13 \cup {32}
ToLower(c) == IF c \in 65..90 THEN c + 32 ELSE c

(* What strlen, strcpy and a C string see of a char array: up to its NUL.  *)
CStr(s) == IF \E i \in 1..Len(s) : s[i] = NUL
           THEN SubSeq(s, 1, (CHOOSE i \in 1..Len(s) : /\ s[i] = NUL
                                                       /\ \A j \in 1..i - 1 : s[j] # NUL) - 1)
           ELSE s

(* strcmp(s, t) < 0: the first difference decides, by unsigned char.       *)
StrLess(s, t) ==
    \E i \in 1..Len(t) : /\ i <= Len(s) + 1
                         /\ SubSeq(s, 1, i - 1) = SubSeq(t, 1, i - 1)
                         /\ i = Len(s) + 1 \/ s[i] < t[i]

(* The text of s from position i up to, and not including, position j.     *)
Slice(s, i, j) == SubSeq(s, i, j - 1)

(* Is word the text of s at position i?  (strncmp with word's length)      *)
At(s, i, word) == /\ i + Len(word) - 1 <= Len(s)
                  /\ Slice(s, i, i + Len(word)) = word

(* The first position from i on where Stop holds of the character, or the  *)
(* one after the last.                                                     *)
Scan(s, i, Stop(_)) ==
    CHOOSE j \in i..Len(s) + 1 : /\ j = Len(s) + 1 \/ Stop(s[j])
                                 /\ \A k \in i..j - 1 : ~Stop(s[k])

(* The first position from i on where word starts, or 0 (strstr, find).    *)
Find(s, i, word) ==
    IF \E j \in i..Len(s) : At(s, j, word)
    THEN CHOOSE j \in i..Len(s) : At(s, j, word) /\ \A k \in i..j - 1 : ~At(s, k, word)
    ELSE 0

(* The decimal text of a natural number (%u), padded with zeros to width.  *)
Decimal(n, width) ==
    LET d == CHOOSE d \in 1..10 : /\ d >= width /\ n < 10 ^ d
                                  /\ d = 1 \/ d = width \/ n >= 10 ^ (d - 1)
    IN  [i \in 1..d |-> 48 + ((n \div 10 ^ (d - i)) % 10)]

Number(s) == LET value[i \in 0..Len(s)] == IF i = 0 THEN 0 ELSE 10 * value[i - 1] + s[i] - 48
             IN  value[Len(s)]

Concat(texts) == FlattenSeq(texts)
HexDigit(d) == IF d < 10 THEN 48 + d ELSE 55 + d
=============================================================================
