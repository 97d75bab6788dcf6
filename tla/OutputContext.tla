--------------------------- MODULE OutputContext ----------------------------
(***************************************************************************)
(* The data of vmhost/contexts/output.go: the VMOutput under construction, *)
(* its accounts, and the operations that read and rewrite them.  The state *)
(* stack of the context and codeUpdates are variables of VMHost.           *)
(*                                                                         *)
(* An account keeps one storage cell.  Return data and log entries are     *)
(* both append-only sequences that are merged in the same way; they are    *)
(* represented together by the number of entries, logs.  Messages are left *)
(* out.  An output transfer is represented by the gas it carries           *)
(* (GasLimit + GasLocked), the only part of it that is read again.         *)
(***************************************************************************)
EXTENDS Integers, Sequences, OverflowMath

CONSTANTS
    Address,      \* addresses of accounts
    Code,         \* contract codes
    NoCode,       \* an empty Code slice
    Value,        \* contents of a storage cell; 0 is the empty value
    NoUpdate,     \* no StorageUpdate for the cell
    NoAccount,    \* no entry in the map of output accounts
    ChainCode     \* the code each existing account has on the chain

ASSUME OutputAssumption ==
    /\ NoCode \notin Code
    /\ 0 \in Value
    /\ NoUpdate \notin Value
    /\ NoAccount \notin [delta : Int, cell : Value \cup {NoUpdate}, nonce : Nat,
                         code : Code \cup {NoCode}, transfers : Seq(Uint), gasUsed : Uint]
    /\ DOMAIN ChainCode \subseteq Address
    /\ \A a \in DOMAIN ChainCode : ChainCode[a] \in Code \cup {NoCode}

ReturnCodes == {"Ok", "UserError", "OutOfGas", "ContractNotFound",
                "ContractInvalid", "ExecutionFailed"}

Account == [delta : Int, cell : Value \cup {NoUpdate}, nonce : Nat,
            code : Code \cup {NoCode}, transfers : Seq(Uint), gasUsed : Uint]

\* OutputAccounts is a map, without an entry where it holds NoAccount.
Accounts == [Address -> Account \cup {NoAccount}]

VMOutput == [accounts : Accounts, logs : Nat, refund : Uint,
             returnCode : ReturnCodes]

NewVMOutputAccount ==
    [delta |-> 0, cell |-> NoUpdate, nonce |-> 0, code |-> NoCode,
     transfers |-> <<>>, gasUsed |-> 0]

NewVMOutput ==
    [accounts |-> [a \in Address |-> NoAccount], logs |-> 0,
     refund |-> 0, returnCode |-> "Ok"]

-----------------------------------------------------------------------------
(* Access to the accounts *)

\* The addresses of the accounts that the output has.
Known(out) == {a \in Address : out.accounts[a] # NoAccount}

\* GetOutputAccount: a missing account is created empty.
AccountOf(out, address) ==
    IF out.accounts[address] = NoAccount THEN NewVMOutputAccount
    ELSE out.accounts[address]

\* The output after an assignment to the account that GetOutputAccount returned.
WithAccount(out, address, account) ==
    [out EXCEPT !.accounts[address] = account]

\* Mutant: only the code of the account goes.
ClearOutputAccount(out, address) ==
    WithAccount(out, address, [AccountOf(out, address) EXCEPT !.code = NoCode])

DeleteOutputAccount(out, address) ==
    [out EXCEPT !.accounts[address] = NoAccount]

\* blockchain.GetCode: the cached or deployed code, then the chain's.
GetCode(out, address) ==
    LET cached == AccountOf(out, address).code
    IN  IF cached # NoCode THEN cached
        ELSE IF address \in DOMAIN ChainCode THEN ChainCode[address]
        ELSE NoCode

-----------------------------------------------------------------------------
(* Merging *)

\* Mutant: the balance deltas are added, though the right-hand output started
\* from the left-hand one.
MergeAccountsAddingDeltas(left, right) ==
    [right EXCEPT
        !.delta = left.delta + @,
        !.cell = IF @ # NoUpdate THEN @ ELSE left.cell,
        !.transfers = left.transfers \o SubSeq(@, Len(left.transfers) + 1, Len(@))]

\* Nonces only grow, transfers are appended past the ones already known,
\* the right-hand balance delta and gas replace the left-hand ones.
MergeOutputAccounts(left, right) ==
    [delta     |-> right.delta,
     cell      |-> IF right.cell # NoUpdate THEN right.cell ELSE left.cell,
     nonce     |-> IF right.nonce > left.nonce THEN right.nonce ELSE left.nonce,
     code      |-> IF right.code # NoCode THEN right.code ELSE left.code,
     transfers |-> left.transfers \o
                     SubSeq(right.transfers, Len(left.transfers) + 1,
                            Len(right.transfers)),
     gasUsed   |-> right.gasUsed]

MergeVMOutputs(left, right) ==
    [accounts   |-> [a \in Address |->
                        IF a \notin Known(right) THEN left.accounts[a]
                        ELSE MergeOutputAccounts(AccountOf(left, a), right.accounts[a])],
     logs       |-> left.logs + right.logs,
     refund     |-> right.refund,
     returnCode |-> right.returnCode]

\* The copy that PushState keeps, and the one PopMergeActiveState installs.
CopyOf(out) == MergeVMOutputs(NewVMOutput, out)

\* The active output of a callee run by ExecuteOnDestContext.
CensorVMOutput(out) ==
    [out EXCEPT !.returnCode = "Ok", !.refund = 0, !.logs = 0]

\* AddToActiveState: a built-in function reports deltas relative to nothing,
\* so they are first added to what the active output already has.  Built-in
\* functions leave GasRefund nil, which the merge replaces by zero.
AddToActiveState(out, right) ==
    LET both == Known(out) \cap Known(right)
        rebased == [a \in Address |->
            IF a \in both THEN [right.accounts[a] EXCEPT !.delta = @ + out.accounts[a].delta]
            ELSE right.accounts[a]]
        extended == [a \in Address |->
            IF a \in both
            THEN [out.accounts[a] EXCEPT !.transfers = @ \o right.accounts[a].transfers]
            ELSE out.accounts[a]]
    IN  MergeVMOutputs([out EXCEPT !.accounts = extended],
                       [right EXCEPT !.refund = 0, !.accounts = rebased])

-----------------------------------------------------------------------------
(* Value, code *)

\* The two balance deltas a successful TransferValueOnly rewrites, in order.
MoveValue(out, destination, sender, value) ==
    LET debited == WithAccount(out, sender,
            [AccountOf(out, sender) EXCEPT !.delta = @ - value])
    IN  WithAccount(debited, destination,
            [AccountOf(debited, destination) EXCEPT !.delta = @ + value])

AppendTransfer(out, destination, gas) ==
    WithAccount(out, destination,
        [AccountOf(out, destination) EXCEPT !.transfers = Append(@, gas)])

AddTxValueToAccount(out, address, value) ==
    WithAccount(out, address, [AccountOf(out, address) EXCEPT !.delta = @ + value])

SetCode(out, address, code) ==
    WithAccount(out, address, [AccountOf(out, address) EXCEPT !.code = code])

\* Code that was only cached is not reported to the node.
RemoveNonUpdatedCode(out, codeUpdates) ==
    [out EXCEPT !.accounts = [a \in Address |->
        IF a \in codeUpdates \/ a \notin Known(out) THEN @[a]
        ELSE [@[a] EXCEPT !.code = NoCode]]]
=============================================================================
