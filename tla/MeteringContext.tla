-------------------------- MODULE MeteringContext ---------------------------
(***************************************************************************)
(* The gas accounting of vmhost/contexts/metering.go.  The metering state  *)
(* of one execution is a record; the gas points themselves are counted by  *)
(* the Wasmer instance, and are an argument (points) of the operators that *)
(* read them.  The state stack of the context is a variable of VMHost.     *)
(***************************************************************************)
EXTENDS OutputContext, FiniteSets, FiniteSetsExt

\* gasUsedByAccounts is a map, without an entry where it holds NoEntry.
NoEntry == -1
GasMap == [Address -> Uint \cup {NoEntry}]

Metering == [initialGasProvided : Uint, initialCost : Uint,
             gasForExecution : Uint, gasUsedByAccounts : GasMap]

InitMetering ==
    [initialGasProvided |-> 0, initialCost |-> 0, gasForExecution |-> 0,
     gasUsedByAccounts |-> [a \in Address |-> NoEntry]]

\* InitStateFromContractCallInput.
MeteringFromInput(gasProvided) ==
    [InitMetering EXCEPT !.initialGasProvided = gasProvided,
                         !.gasForExecution = gasProvided]

GasUsedBy(gasMap, a) == IF gasMap[a] = NoEntry THEN 0 ELSE gasMap[a]

\* PopMergeActiveState: the caller's limits, and the sum of both gas maps.
MergeMetering(active, prev) ==
    [prev EXCEPT !.gasUsedByAccounts =
        [a \in Address |->
            IF active.gasUsedByAccounts[a] = NoEntry THEN @[a]
            ELSE WrapU(active.gasUsedByAccounts[a] + GasUsedBy(@, a))]]

GasLeft(m, points) == SubUint64(m.gasForExecution, points)

BoundGasLimit(m, points, limit) ==
    IF GasLeft(m, points) < limit THEN GasLeft(m, points) ELSE limit

GasSpentByContract(m, points) == AddUint64(m.initialCost, points)

\* deductInitialGas, for an execution that was given gasProvided.
CanDeductInitialGas(gasProvided, cost) == cost <= gasProvided

DeductInitialGas(m, gasProvided, cost) ==
    [m EXCEPT !.initialCost = cost, !.gasForExecution = gasProvided - cost]

-----------------------------------------------------------------------------
(* Closing the books of a successful execution *)

\* A chain of AddUint64 over the elements of S.
SumOver(S, f(_)) ==
    LET sum == MapThenSumSet(f, S) IN IF sum \in Uint THEN sum ELSE MaxUint

SumSeq(s) == SumOver(DOMAIN s, LAMBDA i : s[i])

GetGasTransferredByAccount(account) == SumSeq(account.transfers)

\* All transfers of gas, and the gas used by every account but the current.
GetGasUsedByAllOtherAccounts(m, out, current) ==
    SumOver(Known(out), LAMBDA a :
        GetGasTransferredByAccount(out.accounts[a])
        + IF a = current THEN 0 ELSE GasUsedBy(m.gasUsedByAccounts, a))

\* Mutant: the gas of the callees is counted as the caller's too.
UpdateSCGasUsedWithCallees(m, out, current, points) ==
    [m EXCEPT !.gasUsedByAccounts[current] =
        SubUint64(GasSpentByContract(m, points),
                  GetGasTransferredByAccount(out.accounts[current]))]

\* updateSCGasUsed, once the current account has its entry in out.
UpdateSCGasUsed(m, out, current, points) ==
    LET transferred == GetGasTransferredByAccount(out.accounts[current])
        others == GetGasUsedByAllOtherAccounts(m, out, current)
        used == SubUint64(SubUint64(GasSpentByContract(m, points),
                                    transferred), others)
    IN  [m EXCEPT !.gasUsedByAccounts[current] = used]

SetGasUsedToOutputAccounts(m, out) ==
    [out EXCEPT !.accounts = [a \in Address |->
        IF a \notin Known(out) THEN NoAccount
        ELSE [@[a] EXCEPT !.gasUsed = GasUsedBy(m.gasUsedByAccounts, a)]]]

NoAccountMissing(m, out) ==
    {a \in Address : m.gasUsedByAccounts[a] # NoEntry} \subseteq Known(out)

GetCurrentTotalUsedGas(out) ==
    SumOver(Known(out), LAMBDA a :
        out.accounts[a].gasUsed + GetGasTransferredByAccount(out.accounts[a]))

\* checkGas: everything used, sent away and left adds up to what was provided.
CheckGas(m, out, gasRemaining) ==
    AddUint64(GetCurrentTotalUsedGas(out), gasRemaining) = m.initialGasProvided
=============================================================================
