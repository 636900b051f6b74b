----------------------------- MODULE MCIniFile ------------------------------
EXTENDS IniFile

\* The empty value is none.
MCReadAs(v) == CASE v = "" -> "none" [] OTHER -> v

\* A file written by hand: a section that occurs twice, a comment in it, and two
\* blank lines at the end.
MCInitFiles ==
    {<<Header("a"), Comment, Header("a"), Pair("k", "plain"), Blank, Blank>>}
=============================================================================
