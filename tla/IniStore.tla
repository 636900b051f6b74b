------------------------------ MODULE IniStore ------------------------------
(***************************************************************************)
(* What rdwrini/RdWrIni.cpp promises: a file is a map of sections and keys *)
(* to values.  A write sets one key, deletes one key or deletes a section; *)
(* a read returns the value, or the default when there is none, and also   *)
(* when it cannot read the file.  A write that something went wrong with   *)
(* may lose values but makes none up.                                      *)
(***************************************************************************)
CONSTANTS Section, Key, Value,
    ReadAs(_, _),   \* what a value written to a key is read back as
    NoValue,        \* no value; as an argument it asks for a deletion
    Default

VARIABLES
    store,          \* the value of each key of each section
    pending,        \* the write under way, if there is one
    cut,            \* something went wrong with the last write
    missed,         \* the last read could not read the file
    ret             \* what the last call that ended returned

Entry == Section \X Key

\* What a write makes of the map.
Applied(r) ==
    [e \in Entry |->
        IF e[1] # r.app \/ r.key \notin {e[2], NoValue} THEN store[e]
        ELSE IF NoValue \in {r.key, r.str} THEN NoValue ELSE ReadAs(r.key, r.str)]

Init ==
    /\ store \in [Entry -> Value \cup {NoValue}]
    /\ pending = {}
    /\ cut = FALSE /\ missed = FALSE
    /\ ret = "none"

Get(e) ==
    /\ pending = {}
    /\ ret' = IF store[e] = NoValue THEN Default ELSE store[e]
    /\ missed' = FALSE
    /\ UNCHANGED <<store, pending, cut>>

Miss == pending = {} /\ ret' = Default /\ missed' = TRUE /\ UNCHANGED <<store, pending, cut>>

Call == pending = {} /\ pending' # {} /\ cut' \in BOOLEAN /\ UNCHANGED <<store, ret, missed>>

Fault == cut' /\ UNCHANGED <<store, pending, ret, missed>>

Refused == cut' /\ pending' = {} /\ ret' = "FALSE" /\ UNCHANGED <<store, missed>>

Done == \E r \in pending :
    /\ ~cut /\ store' = Applied(r) /\ pending' = {} /\ ret' = "TRUE"
    /\ UNCHANGED <<cut, missed>>

\* Every key keeps its value, loses it, or has what the write makes of it.
Lose == \E r \in pending :
    /\ cut' /\ pending' = {} /\ ret' \in {ret, "TRUE"}
    /\ store' \in {st \in [Entry -> Value \cup {NoValue}] :
           \A e \in Entry : st[e] \in {store[e], NoValue, Applied(r)[e]}}
    /\ UNCHANGED missed

Next ==
    \/ \E e \in Entry : Get(e)
    \/ Miss \/ Call \/ Fault \/ Refused \/ Done \/ Lose

Spec == Init /\ [][Next]_<<store, pending, cut, missed, ret>>
=============================================================================
