------------------------- MODULE NestedTransactions -------------------------
(***************************************************************************)
(* What nested contract execution promises, whatever the contexts do: the  *)
(* effects of the contracts on the accounts form nested transactions.  A   *)
(* callee works on the effects so far; when it fails, exactly what its     *)
(* caller had is back; when it succeeds, its effects become its caller's   *)
(* without loss.  No step creates or destroys value.                       *)
(***************************************************************************)
EXTENDS Integers, Sequences, SequencesExt, FiniteSetsExt

CONSTANT Address

VARIABLES
    open,      \* a run is in progress
    store,     \* effects on each account: delta, cell, nonce, transfers
    saved      \* the effects as they were at each call in progress

vars == <<open, store, saved>>

Total(s) == MapThenSumSet(LAMBDA a : s[a].delta, Address)

SameButTransfers(s, t) ==
    \A a \in Address : [s[a] EXCEPT !.transfers = <<>>] = [t[a] EXCEPT !.transfers = <<>>]

Init == open = FALSE /\ saved = <<>>

\* A transaction starts from the effects of its own value only.
Start ==
    /\ ~open /\ open' = TRUE
    /\ saved' = <<>>
    /\ \A a \in Address : store'[a].nonce = 0 /\ store'[a].transfers = <<>>

\* The running contract changes its effects.
Write ==
    /\ open
    /\ Total(store') = Total(store)
    /\ UNCHANGED <<open, saved>>

\* A call.  Value may move to the callee; a built-in function that ends in a
\* call has logged its transfer before.
Begin ==
    /\ open
    /\ Len(saved') = Len(saved) + 1 /\ Front(saved') = saved
    /\ SameButTransfers(Last(saved'), store)
    /\ Total(store') = Total(store)
    /\ UNCHANGED open

Abort ==
    /\ saved # <<>>
    /\ store' = Last(saved) /\ saved' = Front(saved)
    /\ UNCHANGED open

\* The creation of a contract is counted by its creator once it succeeded.
Commit ==
    /\ saved # <<>>
    /\ \/ store' = store
       \/ \E a \in Address : store' = [store EXCEPT ![a].nonce = @ + 1]
    /\ saved' = Front(saved)
    /\ UNCHANGED open

\* The run ends with every call in it closed.
End ==
    /\ open /\ open' = FALSE
    /\ saved = <<>>
    /\ UNCHANGED <<store, saved>>

Next == Start \/ Write \/ Begin \/ Abort \/ Commit \/ End

Spec == Init /\ [][Next]_vars
=============================================================================
