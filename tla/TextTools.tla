----------------------------- MODULE TextTools -----------------------------
(***************************************************************************)
(* The functions on texts and dates of src/utils/string and               *)
(* src/utils/tools/_tools.cpp, on a text that grows byte by byte and on a  *)
(* calendar that moves on day by day.  char is signed, as on the platform  *)
(* the makefiles build for; iconv and the C library's calendar are         *)
(* external.                                                               *)
(***************************************************************************)
EXTENDS Chars, Functions, FiniteSets

CONSTANTS Bytes,      \* bound: the bytes a text grows by
          Seeds,      \* bound: the texts it starts from
          MaxText,    \* bound: bytes it grows by
          Exchanges,  \* bound: pairs of texts, the second for the first
          Strays,     \* bound: what may follow a char variable in memory
          GB2312,     \* what iconv makes of the texts that are not ASCII
          FirstDays,  \* bound: days a calendar starts at, with their weekday
          MaxDays,    \* bound: days it moves on
          Offset,     \* the local zone: seconds east of Greenwich,
          Summer      \* and its summer time, from one second up to another

VARIABLES text, grown,       \* the text, and the bytes it grew by
          today, weekday, passed  \* <<year, month, day>>, 0 = Sunday, days passed

toolVars == <<text, grown, today, weekday, passed>>
Never == << >>

-----------------------------------------------------------------------------
(* string_util                                                             *)
RTrim(s) == SubSeq(s, 1, Max({i \in 1..Len(s) : s[i] # SP} \cup {0}))
LTrim(s) == SubSeq(s, Scan(s, 1, LAMBDA c : c # SP), Len(s))
Trim(s) == LTrim(RTrim(s))
ToUpper(c) == IF c \in 97..122 THEN c - 32 ELSE c
MakeUpper(s) == [i \in 1..Len(s) |-> ToUpper(s[i])]
MakeLower(s) == [i \in 1..Len(s) |-> ToLower(s[i])]

(* The loop of remove and replace: from the start of what is there now,    *)
(* taken to be endless after more rounds than these texts can need.        *)
Enough == 16
RECURSIVE ExchangeAll(_, _, _, _)
ExchangeAll(s, old, new, count) ==
    LET p == Find(s, 1, old)
    IN  IF p = 0 THEN <<s, count>>
        ELSE IF count > Enough THEN Never
        ELSE ExchangeAll(Slice(s, 1, p) \o new \o SubSeq(s, p + Len(old), Len(s)), old, new, count + 1)
RemoveText(s, flag) == IF s = <<>> \/ flag = <<>> THEN <<s, 0>> ELSE ExchangeAll(s, flag, <<>>, 0)
ReplaceText(s, old, new) ==
    IF <<>> \in {s, old, new} THEN <<s, 0>> ELSE ExchangeAll(s, CStr(old), CStr(new), 0)

(* For a char the two make a string of what is in memory from it on up to  *)
(* a zero byte.                                                            *)
RemoveChar(s, c, stray) == RemoveText(s, CStr(<<c>> \o stray))
ReplaceChar(s, c, d, stray) == ReplaceText(s, CStr(<<c>> \o stray), CStr(<<d>> \o stray))

(* splitStr                                                                *)
RECURSIVE Pieces(_, _, _)
Pieces(s, sign, from) ==
    LET p == Find(s, from, sign)
    IN  IF p = 0 THEN <<SubSeq(s, from, Len(s))>>
        ELSE <<Slice(s, from, p)>> \o
             IF p + Len(sign) > Len(s) THEN <<>> ELSE Pieces(s, sign, p + Len(sign))
SplitStr(s, sign) == IF s = <<>> THEN <<>> ELSE Pieces(s, sign, 1)

(* getExeDir, of the link /proc/self/exe.                                  *)
Last_(s, c) == Max({i \in 1..Len(s) : s[i] = c} \cup {0})
GetExeDir(path) ==
    LET cut == IF Last_(path, 92) # 0 THEN Last_(path, 92) ELSE Last_(path, 47)
    IN  IF cut = 0 THEN path ELSE SubSeq(path, 1, cut)

-----------------------------------------------------------------------------
(* string_encoding                                                         *)
Follows(lead) == CASE lead \in {252, 253} -> 5
                   [] lead \in 248..255 \ {252, 253} -> 4
                   [] lead \in 240..247 -> 3
                   [] lead \in 224..239 -> 2
                   [] lead \in 192..223 -> 1
                   [] lead \in 128..191 -> -1
                   [] OTHER -> 0
NBytes(nBytes, c) == CASE nBytes = -1 -> -1
                       [] nBytes = 0 -> Follows(c)
                       [] OTHER -> IF c \in 128..191 THEN nBytes - 1 ELSE -1
IsAscii(s) == \A i \in 1..Len(s) : s[i] < 128
IsTextUTF8(s) == FoldLeft(NBytes, 0, s) = 0 /\ ~IsAscii(s)

Kept(c) == IsDigit(c) \/ IsAlpha(c) \/ c \in {45, 46, 95}
Url_encode(s) ==
    Concat([i \in 1..Len(s) |-> CASE s[i] = SP -> <<43>>
                                  [] Kept(s[i]) -> <<s[i]>>
                                  [] OTHER -> <<37, HexDigit(s[i] \div 16), HexDigit(s[i] % 16)>>])

(* A text that is not GB2312 leaves no text to encode: the null pointer is *)
(* read.                                                                   *)
Crash == <<-1>>
CodeConvert(s) == IF IsAscii(s) THEN s ELSE IF s \in DOMAIN GB2312 THEN GB2312[s] ELSE Crash
UrlEncode(s) == IF IsTextUTF8(s) THEN Url_encode(s)
                ELSE IF CodeConvert(s) = Crash THEN Crash
                ELSE Url_encode(CStr(CodeConvert(s)))

-----------------------------------------------------------------------------
(* base64.  A byte of 128 or more is negative when it is widened, and sets *)
(* all the bits above its own.                                             *)
Table == T("ABCDEFGHIJKLMNOPQRSTUVWXYZ") \o T("abcdefghijklmnopqrstuvwxyz") \o T("0123456789+/")
Group(a, b, c) == <<IF b > 127 \/ c > 127 THEN 255 ELSE a, IF c > 127 THEN 255 ELSE b, c>>
Sextets(g) == <<g[1] \div 4, ((g[1] % 4) * 16) + (g[2] \div 16), ((g[2] % 16) * 4) + (g[3] \div 64), g[3] % 64>>
GroupText(s, i) ==
    LET left == Len(s) - i + 1
        b == IF left > 1 THEN s[i + 1] ELSE 0
        c == IF left > 2 THEN s[i + 2] ELSE 0
        sextets == Sextets(Group(s[i], b, c))
    IN  [k \in 1..4 |-> IF k > left + 1 THEN C("=") ELSE Table[sextets[k] + 1]]
EncodeBase64(s) == Concat([g \in 1..(Len(s) + 2) \div 3 |-> GroupText(s, 3 * g - 2)])

(* strchr finds the terminating zero too, at 64; nothing is -1.  Of the    *)
(* two only the low six bits count.                                        *)
Num_strchr(c) == CASE c = NUL -> 64
                   [] \E i \in 1..64 : Table[i] = c -> (CHOOSE i \in 1..64 : Table[i] = c) - 1
                   [] OTHER -> -1
Bytes3(s, i) ==
    LET t == [k \in 0..3 |-> Num_strchr(s[i + k]) % 64]
        all == <<t[0] * 4 + (t[1] \div 16), ((t[1] % 16) * 16) + (t[2] \div 4), ((t[2] % 4) * 64) + t[3]>>
    IN  SubSeq(all, 1, IF s[i + 2] = C("=") THEN 1 ELSE IF s[i + 3] = C("=") THEN 2 ELSE 3)

(* The text, filled with zeros to whole groups, a group at a time.         *)
DecodeBase64(s) ==
    LET whole == CStr(s)
        padded == whole \o [i \in 1..(-Len(whole)) % 4 |-> NUL]
    IN  Concat([g \in 1..Len(padded) \div 4 |-> Bytes3(padded, 4 * g - 3)])
DecodedString(s) == CStr(DecodeBase64(s))

(* What is allocated for it, and the bytes written there with the zero     *)
(* after them.  The zeros that fill the text do not count in its length.   *)
DecodeRoom(s) == Len(CStr(s))
DecodeWrites(s) == Len(DecodeBase64(s)) + 1

-----------------------------------------------------------------------------
(* Small ones of _tools.  An unsigned sum of 32 bits leaves the same       *)
(* remainder by 256 as the sum itself.                                     *)
SignedChar(c) == IF c > 127 THEN c - 256 ELSE c
GetCheckSum(n) == n % 256
GenerateCheckSum(s) == GetCheckSum(FoldLeft(LAMBDA sum, c : sum + SignedChar(c), 0, s))

ToNetBytesOrder(memory) == Reverse(memory)
Memory(n) == [i \in 1..4 |-> (n \div 256 ^ (i - 1)) % 256]
SetBinaryMsgHead(type, length, room) ==
    IF room \in 0..7 THEN -1 ELSE ToNetBytesOrder(Memory(type)) \o ToNetBytesOrder(Memory(length))

(* getformatstr: what it allocates for a format and a result of these      *)
(* lengths.                                                                *)
Allocated(format, iLen) == 4096 + (IF format + iLen > 4096 THEN iLen ELSE 0)

-----------------------------------------------------------------------------
(* The C library's calendar: timegm and gmtime, mktime and localtime.      *)
DayNumber(y, m, d) ==
    LET year == IF m <= 2 THEN y - 1 ELSE y
    IN  365 * year + (year \div 4) - (year \div 100) + (year \div 400)
          + ((153 * ((m + 9) % 12) + 2) \div 5) + d - 719469
Timegm(tm) == 86400 * DayNumber(tm[1] + ((tm[2] - 1) \div 12), ((tm[2] - 1) % 12) + 1, tm[3])
                + 3600 * tm[4] + 60 * tm[5] + tm[6]
Gmtime(t) ==
    LET day == t \div 86400
        year == CHOOSE y \in (1969 + (day \div 366)) .. (1971 + (day \div 365)) :
                    DayNumber(y, 1, 1) <= day /\ day < DayNumber(y + 1, 1, 1)
        month == CHOOSE m \in 1..12 : /\ DayNumber(year, m, 1) <= day
                                      /\ m = 12 \/ day < DayNumber(year, m + 1, 1)
        rest == t % 86400
    IN  <<year, month, day - DayNumber(year, month, 1) + 1, rest \div 3600, (rest \div 60) % 60, rest % 60>>
Wday(t) == ((t \div 86400) + 4) % 7
InSummer(t) == t >= Summer[1] /\ t < Summer[2]
Shift(dst) == Offset + (IF dst THEN 3600 ELSE 0)
Mktime(tm, dst) == Timegm(tm) - Shift(dst)
TimeOf(tm, dst, bUtc) == IF bUtc THEN Timegm(tm) ELSE Mktime(tm, dst)
Wall(t, bUtc) == IF bUtc THEN t ELSE t + Shift(InSummer(t))

(* The dates: every call starts from a tm whose tm_isdst is zero.          *)
GetTMBySpecialDT(t, bUtc) == Gmtime(Wall(t, bUtc))
GetTimeTBySpecialDT(tm, bUtc) == TimeOf(tm, FALSE, bUtc)
GetOffTM_Mutation(tm, off, bUtc) ==    \* always in local time
    GetTMBySpecialDT(TimeOf([i \in 1..6 |-> tm[i] + off[i]], FALSE, FALSE), bUtc)
GetOffTM(tm, off, bUtc) ==
    GetTMBySpecialDT(TimeOf([i \in 1..6 |-> tm[i] + off[i]], FALSE, bUtc), bUtc)
GetSpecialWeekDay(tm, iWeekDay, bUtc) ==
    LET t == TimeOf(tm, FALSE, bUtc)
        local == GetTMBySpecialDT(t, bUtc)
    IN  TimeOf([local EXCEPT ![3] = @ - (Wday(Wall(t, bUtc)) - iWeekDay)], ~bUtc /\ InSummer(t), bUtc)
GetWeek(tm, bUtc) == Wday(Wall(GetTimeTBySpecialDT(tm, bUtc), bUtc))
WhetherWeekEnd(tm, bUtc) == LET day == GetWeek(tm, bUtc)
                            IN  IF day = 0 THEN 1 ELSE IF day = 6 THEN 0 ELSE -1

GetSpecialDT(t, iFormat, bUtc) ==
    LET tm == GetTMBySpecialDT(t, bUtc)
        date == [i \in 1..3 |-> Decimal(tm[i], IF i = 1 THEN 4 ELSE 2)]
        time == [i \in 1..3 |-> Decimal(tm[i + 3], 2)]
        Joined(texts, c) == texts[1] \o c \o texts[2] \o c \o texts[3]
    IN  CASE iFormat = 1 -> Joined(date, T("-")) \o <<SP>> \o Joined(time, T(":"))
          [] iFormat = 2 -> Concat(date)
          [] iFormat = 3 -> Concat(time)
          [] OTHER -> Concat(date) \o Concat(time)

(* getDTNow, at time t: the number of a text, always of the local time.    *)
GetDTNow(t, iFormat, bUtc) ==
    GetSpecialDT(t, CASE iFormat = 1 -> 2 [] iFormat = 2 -> 3 [] OTHER -> 0, FALSE)

-----------------------------------------------------------------------------
ToolInit == /\ text \in Seeds /\ grown = 0
            /\ \E first \in FirstDays : today = SubSeq(first, 1, 3) /\ weekday = first[4]
            /\ passed = 0
Grow(c) == /\ grown < MaxText
           /\ text' = Append(text, c) /\ grown' = grown + 1
           /\ UNCHANGED <<today, weekday, passed>>
TextNext == \E c \in Bytes : Grow(c)

(* The day after, as a calendar on the wall has it.                        *)
Leap(y) == y % 4 = 0 /\ (y % 100 # 0 \/ y % 400 = 0)
MonthLength(y, m) == CASE m = 2 -> IF Leap(y) THEN 29 ELSE 28
                       [] m \in {4, 6, 9, 11} -> 30
                       [] OTHER -> 31
DayAfter(d) == IF d[3] < MonthLength(d[1], d[2]) THEN <<d[1], d[2], d[3] + 1>>
               ELSE IF d[2] < 12 THEN <<d[1], d[2] + 1, 1>> ELSE <<d[1] + 1, 1, 1>>
NextDay == /\ passed < MaxDays
           /\ today' = DayAfter(today) /\ weekday' = (weekday + 1) % 7 /\ passed' = passed + 1
           /\ UNCHANGED <<text, grown>>

-----------------------------------------------------------------------------
(* The texts.  trim leaves the text between its blanks; what remove and    *)
(* replace return has none of the old text, and replace gives the text     *)
(* with each one exchanged, when the new one has none of the old one's     *)
(* characters.  When the new text holds the old one replace never returns, *)
(* although string_util.h says without exception that it replaces what the *)
(* text holds: the code falls short of its comment there.  A character is  *)
(* removed when a zero byte happens to follow it.                          *)
RECURSIVE OnePass(_, _, _)
OnePass(s, old, new) == IF s = <<>> THEN s
                        ELSE IF At(s, 1, old)
                        THEN new \o OnePass(SubSeq(s, Len(old) + 1, Len(s)), old, new)
                        ELSE <<Head(s)>> \o OnePass(Tail(s), old, new)
UtilAgrees ==
    /\ \E i, j \in 0..Len(text) :
          /\ text = [k \in 1..i |-> SP] \o Trim(text) \o [k \in 1..j |-> SP]
          /\ Trim(text) # <<>> => SP \notin {Trim(text)[1], Last(Trim(text))}
    /\ MakeLower(MakeUpper(text)) = MakeLower(text)
    /\ \A pair \in Exchanges :
          LET old == pair[1]  new == pair[2]  kept == RemoveText(text, old)  got == ReplaceText(text, old, new)
          IN  /\ Find(kept[1], 1, old) = 0 /\ Len(text) = Len(kept[1]) + kept[2] * Len(old)
              /\ IF Find(text, 1, old) = 0 THEN got = <<text, 0>>
                 ELSE IF Find(new, 1, old) # 0 THEN got = Never
                 ELSE IF ToSet(old) \cap ToSet(new) = {}
                 THEN got[1] = OnePass(text, old, new)
                 ELSE Find(got[1], 1, old) = 0
    /\ \A c \in Bytes \ {NUL} : \A stray \in Strays :
          stray = <<>> => /\ c \notin ToSet(RemoveChar(text, c, stray)[1])
                          /\ Len(ReplaceChar(text, c, ToUpper(c) + 1, stray)[1]) = Len(text)

(* splitStr's pieces make the text again, less a separator at its end;     *)
(* getExeDir gives the directory, unless the path has a backslash.         *)
PiecesAgree ==
    /\ \A pair \in Exchanges :
          LET pieces == SplitStr(text, pair[1])
              joined == Concat([i \in 1..Len(pieces) |-> IF i = 1 THEN pieces[1] ELSE pair[1] \o pieces[i]])
          IN  /\ text \in {joined, joined \o pair[1]}
              /\ \A i \in 1..Len(pieces) : Find(pieces[i], 1, pair[1]) = 0
    /\ 92 \notin ToSet(text) /\ 47 \in ToSet(text) =>
          /\ Last(GetExeDir(text)) = 47 /\ IsPrefix(GetExeDir(text), text)
          /\ 47 \notin ToSet(SubSeq(text, Len(GetExeDir(text)) + 1, Len(text)))

(* What url_encode returns names the text, in characters that may stand in *)
(* a URL; what is neither UTF-8 nor GB2312 stops the program.              *)
RECURSIVE Url_decode(_)
Url_decode(s) ==
    IF s = <<>> THEN <<>>
    ELSE IF Head(s) = 37
    THEN LET Value(c) == IF IsDigit(c) THEN c - 48 ELSE c - 55
         IN  <<16 * Value(s[2]) + Value(s[3])>> \o Url_decode(SubSeq(s, 4, Len(s)))
    ELSE <<IF Head(s) = 43 THEN SP ELSE Head(s)>> \o Url_decode(Tail(s))
Sequence8(s) == /\ Len(s) \in 1..4
                /\ s[1] \in (CASE Len(s) = 1 -> 0..127 [] Len(s) = 2 -> 194..223
                               [] Len(s) = 3 -> 224..239 [] OTHER -> 240..244)
                /\ \A i \in 2..Len(s) : s[i] \in 128..191
RECURSIVE IsUtf8(_)
IsUtf8(s) == s = <<>> \/ \E n \in 1..4 : n <= Len(s) /\ Sequence8(SubSeq(s, 1, n))
                                                     /\ IsUtf8(SubSeq(s, n + 1, Len(s)))
UrlAgrees ==
    /\ IsUtf8(text) /\ ~IsAscii(text) => IsTextUTF8(text)
    /\ IsTextUTF8(text) => Len(text) > 1 /\ text[Len(text)] < 192
    /\ Url_decode(Url_encode(text)) = text
    /\ IsUtf8(text) => UrlEncode(text) = Url_encode(IF IsAscii(text) THEN CStr(text) ELSE text)
    /\ UrlEncode(text) # Crash => \A c \in ToSet(UrlEncode(text)) : Kept(c) \/ c \in {37, 43}

(* base64: decoding gives back the text, with its padding or without it,   *)
(* unless a byte that is not ASCII stands second or third in its group     *)
(* after one that is not all ones.  What decoding writes fits what it      *)
(* allocated for every text of whole groups that is not empty; for one     *)
(* without padding that is not of whole groups it fits unless the text has *)
(* one of six lengths: "TQ", which testBase64_2 decodes, is written past   *)
(* the end.                                                                *)
RECURSIVE Unpadded(_)
Unpadded(s) == IF s # <<>> /\ Last(s) = C("=") THEN Unpadded(Front(s)) ELSE s
Survives(s) == \A i \in 1..Len(s) : s[i] > 127 =>
                   \A j \in 1..i - 1 : (j - 1) \div 3 = (i - 1) \div 3 => s[j] = 255
DecodeFits(s) == DecodeWrites(s) <= DecodeRoom(s)
Overruns == {0, 1, 2, 3, 5, 6, 9}
Base64Agrees ==
    LET encoded == EncodeBase64(text)
    IN  /\ DecodeBase64(encoded) = text <=> Survives(text)
        /\ Survives(text) => DecodedString(Unpadded(encoded)) = CStr(text)
        /\ text # <<>> => DecodeFits(encoded)
        /\ \A s \in {text, Unpadded(encoded)} :
              C("=") \notin ToSet(CStr(s)) => (DecodeFits(s) <=> DecodeRoom(s) \notin Overruns)

(* The check sum is that of the bytes, the head of a message is in network *)
(* order, and getformatstr's buffer has room for the text and its end.     *)
BytesAgree ==
    LET sum == FoldLeft(LAMBDA n, c : n + c, 0, text)
        head == SetBinaryMsgHead(sum, Len(text), 8)
    IN  /\ GenerateCheckSum(text) = sum % 256
        /\ FoldLeft(LAMBDA n, c : 256 * n + c, 0, SubSeq(head, 1, 4)) = sum
        /\ head[8] = Len(text)
        /\ \A iLen \in {0, 4095 - Len(text), 4096 - Len(text), 4096} :
              Len(text) > 0 => iLen + 1 <= Allocated(Len(text), iLen)

(* The dates.  In universal time getOffTM agrees with the calendar on the  *)
(* wall, getWeek with its weekdays, getSpecialWeekDay stays in the week    *)
(* that starts on Sunday, and the texts sort as the times do.              *)
Moved_(day, h, off) == GetOffTM(day \o <<h, 30, 0>>, off, TRUE)
UtcAgrees ==
    LET noon == today \o <<12, 0, 0>>
        t == GetTimeTBySpecialDT(noon, TRUE)
    IN  /\ Moved_(today, 23, <<0, 0, 1, 0, 0, 0>>) = DayAfter(today) \o <<23, 30, 0>>
        /\ Moved_(today, 23, <<0, 0, 0, 1, 0, 0>>) = DayAfter(today) \o <<0, 30, 0>>
        /\ Moved_(DayAfter(today), 0, <<0, 0, 0, 0, -31, 0>>) = today \o <<23, 59, 0>>
        /\ LET next == Moved_(today, 0, <<0, 1, 0, 0, 0, 0>>)
               y == today[1] + (today[2] \div 12)  m == (today[2] % 12) + 1
               over == today[3] - MonthLength(y, m)
           IN  SubSeq(next, 1, 3) = IF over > 0 THEN <<y, m + 1, over>> ELSE <<y, m, today[3]>>
        /\ GetWeek(noon, TRUE) = weekday
        /\ (WhetherWeekEnd(noon, TRUE) = -1) <=> weekday \in 1..5
        /\ \A w \in 0..6 : LET found == GetSpecialWeekDay(noon, w, TRUE)
                           IN  found = t + 86400 * (w - weekday)
        /\ \A iFormat \in 0..1 :
              \A step \in {1, 60, 3600, 86400} :
                 StrLess(GetSpecialDT(t, iFormat, TRUE), GetSpecialDT(t + step, iFormat, TRUE))

(* In local time a date taken for standard time comes back an hour later   *)
(* in summer and the same otherwise; a weekday found is right to the hour, *)
(* and exact unless the clock was changed in between.                      *)
LocalAgrees == \A h \in {0, 3, 12} :
    LET tm == today \o <<h, 0, 0>>
        t == GetTimeTBySpecialDT(tm, FALSE)
    IN  /\ GetOffTM(tm, <<0, 0, 0, 0, 0, 0>>, FALSE)
              = GetOffTM(tm, <<0, 0, 0, IF InSummer(t) THEN 1 ELSE 0, 0, 0>>, TRUE)
        /\ GetWeek(tm, FALSE) = weekday
        /\ \A w \in 0..6 :
              LET found == GetSpecialWeekDay(tm, w, FALSE)
                  exact == GetTMBySpecialDT(t, FALSE)
                  got == GetTMBySpecialDT(found, FALSE)
              IN  IF InSummer(t) = InSummer(found)
                  THEN Wday(Wall(found, FALSE)) = w /\ got[4] = exact[4]
                  ELSE Timegm(got) - Timegm([exact EXCEPT ![3] = @ + w - weekday]) \in {-3600, 3600}
        /\ GetDTNow(t, 1, TRUE) = GetSpecialDT(t, 2, FALSE)

(* Property ToolsAgree: texts and dates.                                   *)
ToolsAgree == /\ grown # 0 => UtilAgrees /\ PiecesAgree /\ UrlAgrees /\ Base64Agrees /\ BytesAgree
              /\ passed # 0 => UtcAgrees /\ LocalAgrees
=============================================================================
