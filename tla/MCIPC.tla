------------------------------- MODULE MCIPC --------------------------------
(***************************************************************************)
(* Two goroutines of the node that use one driver.                         *)
(***************************************************************************)
EXTENDS IPC

\* One hook of each behaviour: with an error, silent, of the code cache, and
\* one whose kind comes after the range of IsHookCall.
HooksOfEachSort == {"GetStorageData", "CurrentNonce", "SaveCompiledCode", "GetSnapshot"}
=============================================================================
