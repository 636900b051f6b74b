---------------------------- MODULE CallbackLog ----------------------------
(***************************************************************************)
(* cbLogFrm (src/utils/frame/cbfuncLog.cpp), the base class through which  *)
(* clientFrame logs: threads log through a function pointer that another   *)
(* thread sets, with no lock.  The build does not optimise (-O0), so that  *)
(* cbLogPrintMsg reads m_cbFunc twice.                                     *)
(***************************************************************************)
EXTENDS Naturals, Sequences

CONSTANTS Loggers,    \* threads that log
          Callbacks,  \* functions the application sets
          NoCallback  \* NULL
ASSUME NoCallbackAssumption == NoCallback \notin Callbacks

VARIABLES m_cbFunc,  \* m_cbFunc
          log        \* each thread's one call

callbackVars == <<m_cbFunc, log>>

CallbackInit == /\ m_cbFunc = NoCallback
                /\ log = [t \in Loggers |-> [at |-> "out"]]

SetCBFuncLog(f) ==
    /\ m_cbFunc' = f
    /\ log' = [t \in Loggers |-> IF log[t].at \in {"test", "call"}
                                 THEN [log[t] EXCEPT !.since = @ \cup {f}] ELSE log[t]]

(* The message is put together; when that throws, it is dropped without a  *)
(* word.  since gathers what m_cbFunc was while the call went on.          *)
Message(t, name, emLev) ==
    /\ log[t].at = "out"
    /\ \E at \in {"test", "dropped"} :
          log' = [log EXCEPT ![t] = [at |-> at, name |-> name, emLev |-> emLev,
                                     since |-> {m_cbFunc}, to |-> NoCallback]]
    /\ UNCHANGED m_cbFunc
Fail(t)   == Message(t, "Fail", "FAIL")
Warn(t)   == Message(t, "Warn", "WARN")
Info(t)   == Message(t, "Info", "INFO")
Trace(t)  == Message(t, "Trace", "TRACE")
Debug(t)  == Message(t, "Debug", "DEBUG_1")
Debug1(t) == Message(t, "Debug1", "DEBUG_1")
Debug2(t) == Message(t, "Debug2", "DEBUG_2")
Debug3(t) == Message(t, "Debug3", "DEBUG_3")
Debug4(t) == Message(t, "Debug4", "DEBUG_4")
Debug5(t) == Message(t, "Debug5", "DEBUG_5")

Tests(t) == /\ log[t].at = "test"
            /\ log' = [log EXCEPT ![t].at = IF m_cbFunc = NoCallback THEN "returned" ELSE "call"]
            /\ UNCHANGED m_cbFunc
Calls(t) == /\ log[t].at = "call"
            /\ log' = [log EXCEPT ![t].at = IF m_cbFunc = NoCallback THEN "crashed" ELSE "returned",
                                  ![t].to = m_cbFunc]
            /\ UNCHANGED m_cbFunc

CallbackNext ==
    \/ \E f \in Callbacks \cup {NoCallback} : SetCBFuncLog(f)
    \/ \E t \in Loggers : \/ Fail(t) \/ Warn(t) \/ Info(t) \/ Trace(t) \/ Debug(t)
                          \/ Debug1(t) \/ Debug2(t) \/ Debug3(t) \/ Debug4(t) \/ Debug5(t)
                          \/ Tests(t) \/ Calls(t)

CallbackSpec == CallbackInit /\ [][CallbackNext]_callbackVars

-----------------------------------------------------------------------------
(* A message that was put together reaches a function that was set while   *)
(* the call went on; it is lost only if there was none at some time of the *)
(* call, and the program stops in it only if the function was taken away   *)
(* (not when it was exchanged).  So one that sets it once, before it       *)
(* starts its threads, loses nothing.                                      *)
CallbackSafe == \A t \in Loggers :
    /\ log[t].at = "returned" => IF log[t].to = NoCallback THEN NoCallback \in log[t].since
                                 ELSE log[t].to \in log[t].since
    /\ log[t].at = "crashed" => {} # log[t].since \ {NoCallback} /\ NoCallback \in log[t].since
=============================================================================
