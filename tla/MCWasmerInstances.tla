------------------------- MODULE MCWasmerInstances --------------------------
(***************************************************************************)
(* Three contracts that call each other.  Handles are interchangeable.     *)
(***************************************************************************)
EXTENDS WasmerInstances, TLC

HandleSymmetry == Permutations(Handle) \cup Permutations(Address)
=============================================================================
