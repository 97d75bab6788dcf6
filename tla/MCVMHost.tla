------------------------------ MODULE MCVMHost ------------------------------
(***************************************************************************)
(* Small instances of VMHost: two contracts on the chain (alice, who owns  *)
(* the upgradeable bob), the addresses of the contracts that alice may     *)
(* create, one that a transaction may deploy to, and an account in another *)
(* shard.                                                                  *)
(***************************************************************************)
EXTENDS VMHost

CONSTANTS alice, bob, new1, new2, fresh, remote, small, large, broken

MCAddress == {alice, bob, new1, new2, fresh, remote}
MCCode == {small, large, broken}
MCChainCode == (alice :> large) @@ (bob :> small) @@ (remote :> NoCode)
MCChainBalance == (alice :> 1) @@ (bob :> 0) @@ (remote :> 0)
MCOwnerOf == (alice :> NoAddress) @@ (bob :> alice) @@ (remote :> NoAddress)
MCPrepareCost == (small :> 1) @@ (large :> 2) @@ (broken :> 1)
MCCompileCost == (small :> 1) @@ (large :> 2) @@ (broken :> 1)

\* The addresses that contracts other than alice compute are taken.
MCNewAddressOf ==
    [x \in MCAddress \X (0 .. MaxNonce) |->
        IF x[1] # alice THEN remote ELSE IF x[2] = 0 THEN new1 ELSE new2]

MCNoDeployments == {}
MCDeployments == {<<fresh, small>>, <<fresh, broken>>}
=============================================================================
