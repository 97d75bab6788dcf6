---------------------------- MODULE MCAsyncCalls ----------------------------
(***************************************************************************)
(* A contract that is called from its own or from another shard and makes  *)
(* asynchronous calls to a contract of its shard and to two in others.     *)
(***************************************************************************)
EXTENDS AsyncCalls
=============================================================================
