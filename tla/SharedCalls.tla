---------------------------- MODULE SharedCalls ----------------------------
(***************************************************************************)
(* The calls on something that others change meanwhile without a lock: the *)
(* files that processes share and the function that threads log through.   *)
(***************************************************************************)
EXTENDS FileHelpers, CallbackLog

(* Every answer of createDirectory, MapMemFile and filestat, and every     *)
(* message of the callback log, is what was there at some time of the call,*)
(* unless the system refused one of its calls for a reason of its own.     *)
CallsAgree == FilesAgree /\ CallbackSafe
=============================================================================
