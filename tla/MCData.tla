------------------------------- MODULE MCData -------------------------------
(***************************************************************************)
(* The values for TLC of the small machines around the clients: documents, *)
(* locks, connecting, paths and files, texts and dates, the callback log.  *)
(* They share no state, so that a behaviour runs one of them, which kind   *)
(* names, and the others stay at their first state.                        *)
(***************************************************************************)
EXTENDS JsonDocument, TinyXmlDocument, LockObjects, NetFunc, SharedCalls, TextTools

VARIABLE kind

JsonArray == T("a")
JsonNames == {T("b")}
JsonElements == {null, Of(UIntT, 31), Of(IntT, -5), Of(RealT, 2500000), Of(StringT, <<34, 10, 7>>),
                 PutAt(null, ArrayT, 1, Of(BoolT, TRUE))}
JsonComments == {T("//d")}
JsonPaths == {T(".a[1]"), T("b.%.c"), T("b[1]")}
JsonTokens == {"{", "}", "[", "]", ",", ":", "1", "\"a\"", "/*c*/", "//d\n"}

XmlContents == {XNode("element", T("a"), <<<<T("k"), T("\"&")>>>>, <<>>), XLeaf("text", <<120, 10, 60>>)}
XmlValues == {T("b")}
XmlAttributes == {<<<<>>, <<>>>>}
XmlTokensRead == {"<a>", "<b>", "</a>", "<b k='\"'/>", "<!--c-->", "<?xml version='1'?>", "\n&lt;",
                  "<![CDATA[ ]&]]>"}

TextBytes == {0, 32, 37, 47, 61, 66, 92, 97, 169, 195, 208, 254}
TextSeeds == {<<>>, <<254, 128, 128, 128>>, <<97, 66, 97>>, <<240, 159, 152>>, <<214>>}
TextExchanges == {<<T("a"), T("B")>>, <<T("aB"), T("B")>>, <<T("a"), T("aa")>>,
                  <<T("/"), T("a ")>>, <<T("aB"), T("Ba")>>}
TextStrays == {<<>>, <<120>>}
TextGB2312 == [s \in {<<214, 208>>} |-> <<228, 184, 173>>]
TextDays == {<<2023, 12, 1, 5>>, <<1999, 12, 20, 1>>}
TextSummer == <<1711846800, 1729990800>>

-----------------------------------------------------------------------------
Alone(name, simple) == kind = name \/ simple

Init == /\ kind \in {"json", "xml", "locks", "mutex", "net", "path", "mapping", "files",
                     "text", "calendar", "callback"}
        /\ JsonInit /\ XmlInit /\ LockInit /\ CallbackInit
        /\ NetInit /\ Alone("net", sync)
        /\ FileInit /\ Alone("path", \A i \in 1..Depth : entry[i] = None)
                    /\ Alone("mapping", size = -1)
                    /\ Alone("files", \A p \in FilePaths : file[p] = None)
        /\ ToolInit /\ Alone("text", text = <<>>) /\ Alone("calendar", today[1] = 1999)

JsonStep == /\ kind = "json" /\ JsonNext
            /\ UNCHANGED <<kind, xmlVars, lockVars, netVars, fileVars, toolVars, callbackVars>>
XmlStep == /\ kind = "xml" /\ XmlNext
           /\ UNCHANGED <<kind, jsonVars, lockVars, netVars, fileVars, toolVars, callbackVars>>
ObjectStep == /\ kind = "locks" /\ ObjectNext
              /\ UNCHANGED <<kind, jsonVars, xmlVars, netVars, fileVars, toolVars, callbackVars>>
MutexStep == /\ kind = "mutex" /\ MutexNext
             /\ UNCHANGED <<kind, jsonVars, xmlVars, netVars, fileVars, toolVars, callbackVars>>
NetStep == /\ kind = "net" /\ NetNext
           /\ UNCHANGED <<kind, jsonVars, xmlVars, lockVars, fileVars, toolVars, callbackVars>>
DirectoryStep == /\ kind = "path" /\ DirectoryNext
                 /\ UNCHANGED <<kind, jsonVars, xmlVars, lockVars, netVars, toolVars, callbackVars>>
MappingStep == /\ kind = "mapping" /\ MappingNext
               /\ UNCHANGED <<kind, jsonVars, xmlVars, lockVars, netVars, toolVars, callbackVars>>
FileStep == /\ kind = "files" /\ FileNext
            /\ UNCHANGED <<kind, jsonVars, xmlVars, lockVars, netVars, toolVars, callbackVars>>
TextStep == /\ kind = "text" /\ TextNext
            /\ UNCHANGED <<kind, jsonVars, xmlVars, lockVars, netVars, fileVars, callbackVars>>
DayStep == /\ kind = "calendar" /\ NextDay
           /\ UNCHANGED <<kind, jsonVars, xmlVars, lockVars, netVars, fileVars, callbackVars>>
CallbackStep == /\ kind = "callback" /\ CallbackNext
                /\ UNCHANGED <<kind, jsonVars, xmlVars, lockVars, netVars, fileVars, toolVars>>

Next == \/ JsonStep \/ XmlStep \/ ObjectStep \/ MutexStep \/ NetStep \/ DirectoryStep
        \/ MappingStep \/ FileStep \/ TextStep \/ DayStep \/ CallbackStep

dataVars == <<kind, jsonVars, xmlVars, lockVars, netVars, fileVars, toolVars, callbackVars>>
Spec == Init /\ [][Next]_dataVars

-----------------------------------------------------------------------------
(* The properties of the components, each where its machine runs.          *)
(* The ways into the JSON values agree with one another.                   *)
JsonValues == kind = "json" /\ input = <<>> => AccessAgrees
(* What the JSON writers write is read as the same document, and the reader*)
(* accepts what its grammar has.                                           *)
JsonTexts == kind = "json" => JsonRoundTrip /\ ReaderAccepts
(* The XML tree is copied and looked through as its links say, and what    *)
(* documents are written as is read as the same document; the reader makes *)
(* the tree a text spells, or reports an error.                            *)
XmlTexts == kind = "xml" => TreeAnswers /\ XmlRoundTrip /\ XmlReads
(* The texts and the calendar.                                             *)
TextsAndDates == kind \in {"text", "calendar"} => ToolsAgree
=============================================================================
