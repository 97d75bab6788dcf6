--------------------------- MODULE VMHost_proofs ----------------------------
(***************************************************************************)
(* Proofs about nested execution, for every set of accounts, codes and     *)
(* costs, and for every depth of calls.                                    *)
(*                                                                         *)
(* The inductive invariant FramesInv says that the context stacks are      *)
(* aligned with the frames of the calls, that the state is well typed,     *)
(* which Wasmer instances are live, and that what a caller will get back   *)
(* is what it had when it made its call.  A lemma for each kind of step    *)
(* (an API function returns, a call pushes, an end pops, a run starts or   *)
(* ends) shows that it is preserved, and one for each action that the      *)
(* action is such a step.                                                  *)
(***************************************************************************)
EXTENDS VMHost, BasicTheorems

-----------------------------------------------------------------------------
(* The types of what the operators of the contexts compute *)

\* The bounds of the words.
LEMMA Bounds ==
    /\ Modulus \in Nat \ {0} /\ Modulus = MaxUint + 1
    /\ MaxInt \in Nat /\ MinInt \in Int /\ MinInt = -(MaxInt + 1)
    /\ Modulus = 2 * MaxInt + 2
BY MaxUintAssumption DEF Modulus, MaxInt, MinInt

\* The guarded operators return words, whether they saturate or not.
LEMMA WordTypes ==
    ASSUME NEW a \in Uint, NEW b \in Uint
    PROVE  AddUint64(a, b) \in Uint /\ SubUint64(a, b) \in Uint /\ MulUint64(a, b) \in Uint
<1>1. 0 \in Uint /\ MaxUint \in Uint /\ a \in Nat /\ b \in Nat /\ a <= MaxUint
    BY MaxUintAssumption DEF Uint
<1>2. ASSUME NEW x \in Nat PROVE WrapU(x) \in Uint
    BY Bounds, MaxUintAssumption DEF WrapU, Uint
<1>3. a + b \in Nat /\ a * b \in Nat
    BY <1>1
<1>4. AddUint64(a, b) \in Uint
    BY <1>1, <1>2, <1>3 DEF AddUint64
<1>5. SubUint64(a, b) \in Uint
    BY <1>1, MaxUintAssumption DEF SubUint64, Uint
<1>6. MulUint64(a, b) \in Uint
    <2>1. WrapU(a * b) \in Uint
        BY <1>2, <1>3
    <2> QED BY <1>1, <2>1 DEF MulUint64
<1> QED BY <1>4, <1>5, <1>6

\* The smallest and the largest word.
LEMMA ZeroIsWord == 0 \in Uint /\ MaxUint \in Uint
    BY MaxUintAssumption DEF Uint

\* A chain of AddUint64 gives a word, whatever it adds.
LEMMA SumSeqType ==
    ASSUME NEW s PROVE SumSeq(s) \in Uint
    BY ZeroIsWord DEF SumSeq, SumOver

\* The account that GetOutputAccount returns.
LEMMA NewAccountType == NewVMOutputAccount \in Account
    BY ZeroIsWord, OutputAssumption DEF NewVMOutputAccount, Account

\* ... is well typed, whether it was there or is created.
LEMMA AccountOfType ==
    ASSUME NEW out \in VMOutput, NEW a \in Address
    PROVE  AccountOf(out, a) \in Account
    BY NewAccountType DEF AccountOf, VMOutput, Accounts

\* An output in which an account was rewritten.
LEMMA WithAccountType ==
    ASSUME NEW out \in VMOutput, NEW a \in Address, NEW account \in Account
    PROVE  WithAccount(out, a, account) \in VMOutput
    BY DEF WithAccount, VMOutput, Accounts

\* An output without an account.
LEMMA DeleteType ==
    ASSUME NEW out \in VMOutput, NEW a
    PROVE  DeleteOutputAccount(out, a) \in VMOutput
    BY DEF DeleteOutputAccount, VMOutput, Accounts

\* The output of a run that begins.
LEMMA NewVMOutputType == NewVMOutput \in VMOutput
    BY ZeroIsWord DEF NewVMOutput, VMOutput, Accounts, ReturnCodes

\* The code that blockchain.GetCode finds.
LEMMA GetCodeType ==
    ASSUME NEW out \in VMOutput, NEW a \in Address
    PROVE  GetCode(out, a) \in Code \cup {NoCode}
    BY AccountOfType, OutputAssumption DEF GetCode, Account

\* Code is cached or installed.
LEMMA SetCodeType ==
    ASSUME NEW out \in VMOutput, NEW a \in Address, NEW code \in Code \cup {NoCode}
    PROVE  SetCode(out, a, code) \in VMOutput
<1>1. [AccountOf(out, a) EXCEPT !.code = code] \in Account
    BY AccountOfType DEF Account
<1> QED BY <1>1, WithAccountType DEF SetCode

\* A storage cell is written.
LEMMA SetCellType ==
    ASSUME NEW out \in VMOutput, NEW a \in Address, NEW v \in Value
    PROVE  SetCell(out, a, v) \in VMOutput
<1>1. [AccountOf(out, a) EXCEPT !.cell = v] \in Account
    BY AccountOfType DEF Account
<1> QED BY <1>1, WithAccountType DEF SetCell

\* Value is added to an account, or taken from it.
LEMMA CreditType ==
    ASSUME NEW out \in VMOutput, NEW a \in Address, NEW v \in Nat
    PROVE  /\ WithAccount(out, a, [AccountOf(out, a) EXCEPT !.delta = @ + v]) \in VMOutput
           /\ WithAccount(out, a, [AccountOf(out, a) EXCEPT !.delta = @ - v]) \in VMOutput
<1> DEFINE account == AccountOf(out, a)
<1>1. account \in Account
    BY AccountOfType
<1> HIDE DEF account
<1>2. [account EXCEPT !.delta = @ + v] \in Account /\ [account EXCEPT !.delta = @ - v] \in Account
    BY <1>1 DEF Account
<1>3. /\ WithAccount(out, a, [account EXCEPT !.delta = @ + v]) \in VMOutput
      /\ WithAccount(out, a, [account EXCEPT !.delta = @ - v]) \in VMOutput
    BY <1>2, WithAccountType
<1> QED BY <1>3 DEF account

\* TransferValueOnly.
LEMMA MoveValueType ==
    ASSUME NEW out \in VMOutput, NEW a \in Address, NEW b \in Address, NEW v \in Nat
    PROVE  MoveValue(out, a, b, v) \in VMOutput
<1> DEFINE debited == WithAccount(out, b, [AccountOf(out, b) EXCEPT !.delta = @ - v])
<1>1. debited \in VMOutput
    BY CreditType
<1>2. WithAccount(debited, a, [AccountOf(debited, a) EXCEPT !.delta = @ + v]) \in VMOutput
    <2> HIDE DEF debited
    <2> QED BY <1>1, CreditType
<1> QED BY <1>2 DEF MoveValue

\* The value that a transaction brings.
LEMMA AddTxValueType ==
    ASSUME NEW out \in VMOutput, NEW a \in Address, NEW v \in Nat
    PROVE  AddTxValueToAccount(out, a, v) \in VMOutput
    BY CreditType DEF AddTxValueToAccount

\* A transfer is added to the output of its recipient.
LEMMA AppendTransferType ==
    ASSUME NEW out \in VMOutput, NEW a \in Address, NEW gas \in Uint
    PROVE  AppendTransfer(out, a, gas) \in VMOutput
<1> DEFINE account == AccountOf(out, a)
<1>1. account \in Account
    BY AccountOfType
<1> HIDE DEF account
<1>2. Append(account.transfers, gas) \in Seq(Uint)
    BY <1>1 DEF Account
<1>3. [account EXCEPT !.transfers = Append(@, gas)] \in Account
    BY <1>1, <1>2 DEF Account
<1>4. WithAccount(out, a, [account EXCEPT !.transfers = Append(@, gas)]) \in VMOutput
    BY <1>3, WithAccountType
<1> QED BY <1>4 DEF account, AppendTransfer

\* The gas used by an account.
LEMMA GasUsedType ==
    ASSUME NEW account \in Account, NEW gas \in Uint
    PROVE  /\ [account EXCEPT !.gasUsed = gas] \in Account
           /\ [account EXCEPT !.gasUsed = AddUint64(@, gas)] \in Account
    BY WordTypes DEF Account

\* Merging two accounts.
LEMMA MergeAccountsType ==
    ASSUME NEW left \in Account, NEW right \in Account
    PROVE  MergeOutputAccounts(left, right) \in Account
<1>1. SubSeq(right.transfers, Len(left.transfers) + 1, Len(right.transfers)) \in Seq(Uint)
    BY DEF Account
<1>2. left.transfers \o SubSeq(right.transfers, Len(left.transfers) + 1, Len(right.transfers)) \in Seq(Uint)
    BY <1>1 DEF Account
<1> QED BY <1>2 DEF Account, MergeOutputAccounts

\* Merging two outputs.
LEMMA MergeType ==
    ASSUME NEW left \in VMOutput, NEW right \in VMOutput
    PROVE  MergeVMOutputs(left, right) \in VMOutput
<1>1. ASSUME NEW a \in Address, a \in Known(right)
      PROVE  MergeOutputAccounts(AccountOf(left, a), right.accounts[a]) \in Account
    BY <1>1, AccountOfType, MergeAccountsType DEF Known, VMOutput, Accounts
<1>2. ASSUME NEW a \in Address PROVE left.accounts[a] \in Account \cup {NoAccount}
    BY DEF VMOutput, Accounts
<1>3. [a \in Address |-> IF a \notin Known(right) THEN left.accounts[a]
            ELSE MergeOutputAccounts(AccountOf(left, a), right.accounts[a])] \in Accounts
    BY <1>1, <1>2 DEF Accounts
<1>4. left.logs + right.logs \in Nat /\ right.refund \in Uint /\ right.returnCode \in ReturnCodes
    BY DEF VMOutput
<1> QED BY <1>3, <1>4 DEF MergeVMOutputs, VMOutput

\* The output that a callee begins with.
LEMMA CensorType ==
    ASSUME NEW out \in VMOutput PROVE CensorVMOutput(out) \in VMOutput
    BY ZeroIsWord DEF CensorVMOutput, VMOutput, ReturnCodes

\* Cached code is dropped.
LEMMA RemoveCodeType ==
    ASSUME NEW out \in VMOutput, NEW codes
    PROVE  RemoveNonUpdatedCode(out, codes) \in VMOutput
<1> DEFINE accounts == [a \in Address |->
                IF a \in codes \/ a \notin Known(out) THEN out.accounts[a]
                ELSE [out.accounts[a] EXCEPT !.code = NoCode]]
<1>1. ASSUME NEW a \in Address, a \in Known(out)
      PROVE  [out.accounts[a] EXCEPT !.code = NoCode] \in Account
    <2> DEFINE account == out.accounts[a]
    <2>1. account \in Account
        BY <1>1 DEF Known, VMOutput, Accounts
    <2> HIDE DEF account
    <2>2. [account EXCEPT !.code = NoCode] \in Account
        BY <2>1 DEF Account
    <2> QED BY <2>2 DEF account
<1>2. ASSUME NEW a \in Address PROVE out.accounts[a] \in Account \cup {NoAccount}
    BY DEF VMOutput, Accounts
<1>3. accounts \in Accounts
    BY <1>1, <1>2 DEF Accounts
<1> HIDE DEF accounts
<1>4. [out EXCEPT !.accounts = accounts] \in VMOutput
    BY <1>3 DEF VMOutput
<1> QED BY <1>4 DEF accounts, RemoveNonUpdatedCode

\* The gas map is written to the accounts.
LEMMA SetGasUsedType ==
    ASSUME NEW m \in Metering, NEW out \in VMOutput
    PROVE  SetGasUsedToOutputAccounts(m, out) \in VMOutput
<1> DEFINE accounts == [a \in Address |->
                IF a \notin Known(out) THEN NoAccount
                ELSE [out.accounts[a] EXCEPT !.gasUsed = GasUsedBy(m.gasUsedByAccounts, a)]]
<1>1. ASSUME NEW a \in Address, a \in Known(out)
      PROVE  [out.accounts[a] EXCEPT !.gasUsed = GasUsedBy(m.gasUsedByAccounts, a)] \in Account
    <2> DEFINE account == out.accounts[a]
               gas == GasUsedBy(m.gasUsedByAccounts, a)
    <2>1. account \in Account
        BY <1>1 DEF Known, VMOutput, Accounts
    <2>2. gas \in Uint
        BY ZeroIsWord DEF GasUsedBy, Metering, GasMap
    <2> HIDE DEF account, gas
    <2>3. [account EXCEPT !.gasUsed = gas] \in Account
        BY <2>1, <2>2 DEF Account
    <2> QED BY <2>3 DEF account, gas
<1>3. accounts \in Accounts
    BY <1>1 DEF Accounts
<1> HIDE DEF accounts
<1>4. [out EXCEPT !.accounts = accounts] \in VMOutput
    BY <1>3 DEF VMOutput
<1> QED BY <1>4 DEF accounts, SetGasUsedToOutputAccounts

\* What a built-in function reports.
LEMMA BuiltinOutputType ==
    ASSUME NEW a \in Address
    PROVE  BuiltinOutput(a) \in VMOutput
<1> DEFINE account == [NewVMOutputAccount EXCEPT !.transfers = <<0>>]
           none == NewVMOutput
<1>1. <<0>> \in Seq(Uint)
    BY ZeroIsWord
<1>2. account \in Account
    BY <1>1, NewAccountType DEF Account
<1>3. none \in VMOutput
    BY NewVMOutputType
<1> HIDE DEF account, none
<1>4. [none EXCEPT !.accounts = [@ EXCEPT ![a] = account]] \in VMOutput
    BY <1>2, <1>3 DEF VMOutput, Accounts
<1> QED BY <1>4 DEF account, none, BuiltinOutput

\* What a built-in function reports that refuses.
LEMMA RefusedOutputType == RefusedOutput \in VMOutput
<1>1. NewVMOutput \in VMOutput
    BY NewVMOutputType
<1> QED BY <1>1 DEF RefusedOutput, VMOutput, ReturnCodes

\* What a built-in function reports is added to the output.
LEMMA AddToActiveType ==
    ASSUME NEW out \in VMOutput, NEW right \in VMOutput
    PROVE  AddToActiveState(out, right) \in VMOutput
<1> DEFINE both == Known(out) \cap Known(right)
           added == [a \in Address |->
                IF a \in both THEN [right.accounts[a] EXCEPT !.delta = @ + out.accounts[a].delta]
                ELSE right.accounts[a]]
           appended == [a \in Address |->
                IF a \in both
                THEN [out.accounts[a] EXCEPT !.transfers = @ \o right.accounts[a].transfers]
                ELSE out.accounts[a]]
           rebased == [right EXCEPT !.refund = 0, !.accounts = added]
           extended == [out EXCEPT !.accounts = appended]
<1>1. ASSUME NEW a \in both
      PROVE  /\ [right.accounts[a] EXCEPT !.delta = @ + out.accounts[a].delta] \in Account
             /\ [out.accounts[a] EXCEPT !.transfers = @ \o right.accounts[a].transfers] \in Account
    <2> DEFINE r == right.accounts[a]
               o == out.accounts[a]
    <2>1. r \in Account /\ o \in Account
        BY <1>1 DEF Known, VMOutput, Accounts
    <2> HIDE DEF r, o
    <2>2. o.transfers \o r.transfers \in Seq(Uint)
        BY <2>1 DEF Account
    <2>3. r.delta + o.delta \in Int
        BY <2>1 DEF Account
    <2>4. [r EXCEPT !.delta = @ + o.delta] \in Account
        BY <2>1, <2>3 DEF Account
    <2>5. [o EXCEPT !.transfers = @ \o r.transfers] \in Account
        BY <2>1, <2>2 DEF Account
    <2> QED BY <2>4, <2>5 DEF r, o
<1>2. ASSUME NEW a \in Address
      PROVE  out.accounts[a] \in Account \cup {NoAccount} /\ right.accounts[a] \in Account \cup {NoAccount}
    BY DEF VMOutput, Accounts
<1>3. added \in Accounts
    <2> HIDE DEF both
    <2> QED BY <1>1, <1>2 DEF Accounts
<1>4. appended \in Accounts
    <2> HIDE DEF both
    <2> QED BY <1>1, <1>2 DEF Accounts
<1> HIDE DEF added, appended
<1>5. rebased \in VMOutput /\ extended \in VMOutput
    BY <1>3, <1>4, ZeroIsWord DEF VMOutput
<1> HIDE DEF rebased, extended
<1>6. MergeVMOutputs(extended, rebased) \in VMOutput
    BY <1>5, MergeType
<1> QED BY <1>6, Zenon DEF both, added, appended, rebased, extended, AddToActiveState

\* The metering state of an execution that begins.
LEMMA MeteringFromInputType ==
    ASSUME NEW gas \in Uint PROVE MeteringFromInput(gas) \in Metering
    BY ZeroIsWord DEF MeteringFromInput, InitMetering, Metering, GasMap

\* deductInitialGas.
LEMMA DeductType ==
    ASSUME NEW m \in Metering, NEW gas \in Uint, NEW cost \in Uint,
           CanDeductInitialGas(gas, cost)
    PROVE  DeductInitialGas(m, gas, cost) \in Metering
<1>1. gas - cost \in Uint
    BY MaxUintAssumption DEF Uint, CanDeductInitialGas
<1> QED BY <1>1 DEF DeductInitialGas, Metering

\* Plain additions wrap around to a word.
LEMMA WrapType ==
    ASSUME NEW x \in Int PROVE WrapU(x) \in Uint
    BY Bounds, MaxUintAssumption DEF WrapU, Uint

\* The gas of a callee goes to its caller.
LEMMA MergeMeteringType ==
    ASSUME NEW active \in Metering, NEW prev \in Metering
    PROVE  MergeMetering(active, prev) \in Metering
<1> DEFINE gasMap == [a \in Address |->
            IF active.gasUsedByAccounts[a] = NoEntry THEN prev.gasUsedByAccounts[a]
            ELSE WrapU(active.gasUsedByAccounts[a] + GasUsedBy(prev.gasUsedByAccounts, a))]
<1>1. ASSUME NEW a \in Address, active.gasUsedByAccounts[a] # NoEntry
      PROVE  WrapU(active.gasUsedByAccounts[a] + GasUsedBy(prev.gasUsedByAccounts, a)) \in Uint
    <2>1. active.gasUsedByAccounts[a] \in Int /\ GasUsedBy(prev.gasUsedByAccounts, a) \in Int
        BY <1>1, MaxUintAssumption DEF Metering, GasMap, GasUsedBy, Uint
    <2> QED BY <2>1, WrapType
<1>2. ASSUME NEW a \in Address PROVE prev.gasUsedByAccounts[a] \in Uint \cup {NoEntry}
    BY DEF Metering, GasMap
<1>3. gasMap \in GasMap
    BY <1>1, <1>2 DEF GasMap
<1> HIDE DEF gasMap
<1>4. [prev EXCEPT !.gasUsedByAccounts = gasMap] \in Metering
    BY <1>3 DEF Metering
<1> QED BY <1>4 DEF gasMap, MergeMetering

\* updateSCGasUsed.
LEMMA UpdateSCGasUsedType ==
    ASSUME NEW m \in Metering, NEW out, NEW a \in Address, NEW points \in Uint
    PROVE  UpdateSCGasUsed(m, out, a, points) \in Metering
<1> DEFINE spent == GasSpentByContract(m, points)
           transferred == GetGasTransferredByAccount(out.accounts[a])
           others == GetGasUsedByAllOtherAccounts(m, out, a)
           used == SubUint64(SubUint64(spent, transferred), others)
<1>1. spent \in Uint
    BY WordTypes DEF GasSpentByContract, Metering
<1>2. transferred \in Uint
    BY SumSeqType DEF GetGasTransferredByAccount
<1>3. others \in Uint
    BY ZeroIsWord DEF GetGasUsedByAllOtherAccounts, SumOver
<1> HIDE DEF spent, transferred, others
<1>4. used \in Uint
    BY <1>1, <1>2, <1>3, WordTypes
<1> HIDE DEF used
<1>5. [m EXCEPT !.gasUsedByAccounts[a] = used] \in Metering
    BY <1>4 DEF Metering, GasMap
<1> QED BY <1>5, Zenon DEF used, spent, transferred, others, UpdateSCGasUsed

-----------------------------------------------------------------------------
(* Gas points *)

\* The instances of a host.
Instances == [InstanceIds \ {0} -> Instance]

\* v is w but for the points of the instance id.
OnlyPoints(w, v, id) ==
    /\ v \in Instances
    /\ \A i \in InstanceIds \ {0} : v[i].live = w[i].live /\ (i # id => v[i] = w[i])

\* Points fit in a signed number, and so in a word.
LEMMA PointsAreWords ==
    /\ 0 .. MaxInt \subseteq Uint
    /\ \A gas \in Uint : SetPointsUsed(gas) \in 0 .. MaxInt
    BY Bounds, MaxUintAssumption DEF Uint, SetPointsUsed

\* UseGas changes the points of one instance.
LEMMA UseGasPoints ==
    ASSUME NEW w \in Instances, NEW id \in InstanceIds \ {0}, NEW gas \in Uint
    PROVE  OnlyPoints(w, UseGas(w, id, gas), id)
<1> DEFINE used == SetPointsUsed(AddUint64(w[id].used, gas))
<1>1. w[id] \in Instance
    BY DEF Instances
<1>2. w[id].used \in Uint
    BY <1>1, PointsAreWords DEF Instance
<1>3. used \in 0 .. MaxInt
    BY <1>2, WordTypes, PointsAreWords
<1>4. UseGas(w, id, gas) = [w EXCEPT ![id].used = used]
    BY DEF UseGas
<1> HIDE DEF used
<1>5. [w EXCEPT ![id].used = used] \in Instances
    BY <1>1, <1>3 DEF Instances, Instance
<1>6. [w EXCEPT ![id].used = used][id].live = w[id].live
    BY <1>1 DEF Instances, Instance
<1>7. \A i \in InstanceIds \ {0} : i # id => [w EXCEPT ![id].used = used][i] = w[i]
    BY DEF Instances
<1> QED BY <1>4, <1>5, <1>6, <1>7 DEF OnlyPoints

\* RestoreGas changes the points of one instance.
LEMMA RestoreGasPoints ==
    ASSUME NEW w \in Instances, NEW id \in InstanceIds \ {0}, NEW gas \in Uint
    PROVE  OnlyPoints(w, RestoreGas(w, id, gas), id)
<1> DEFINE used == IF gas <= w[id].used THEN SetPointsUsed(SubUint64(w[id].used, gas))
                   ELSE w[id].used
<1>1. w[id] \in Instance
    BY DEF Instances
<1>2. w[id].used \in Uint /\ w[id].used \in 0 .. MaxInt
    BY <1>1, PointsAreWords DEF Instance
<1>3. used \in 0 .. MaxInt
    BY <1>2, WordTypes, PointsAreWords
<1>4. RestoreGas(w, id, gas) = [w EXCEPT ![id].used = used]
    BY DEF RestoreGas
<1> HIDE DEF used
<1>5. [w EXCEPT ![id].used = used] \in Instances
    BY <1>1, <1>3 DEF Instances, Instance
<1>6. [w EXCEPT ![id].used = used][id].live = w[id].live
    BY <1>1 DEF Instances, Instance
<1>7. \A i \in InstanceIds \ {0} : i # id => [w EXCEPT ![id].used = used][i] = w[i]
    BY DEF Instances
<1> QED BY <1>4, <1>5, <1>6, <1>7 DEF OnlyPoints

\* Two such changes make one.
LEMMA PointsCompose ==
    ASSUME NEW u, NEW v, NEW w, NEW id, OnlyPoints(u, v, id), OnlyPoints(v, w, id)
    PROVE  OnlyPoints(u, w, id)
    BY DEF OnlyPoints

\* CleanWasmerInstance.
LEMMA CleanType ==
    ASSUME NEW w \in Instances, NEW id
    PROVE  /\ Clean(w, id) \in Instances
           /\ \A i \in InstanceIds \ {0} : Clean(w, id)[i] = IF i = id THEN DeadInstance ELSE w[i]
<1>1. DeadInstance \in Instance
    BY ZeroIsWord, Bounds DEF DeadInstance, Instance
<1>2. DOMAIN w = InstanceIds \ {0} /\ \A i \in InstanceIds \ {0} : w[i] \in Instance
    BY DEF Instances
<1>3. Clean(w, id) = [i \in InstanceIds \ {0} |-> IF i = id THEN DeadInstance ELSE w[i]]
    BY <1>2 DEF Clean
<1> QED BY <1>1, <1>2, <1>3 DEF Instances

\* The gas that a storage cell uses and frees.
LEMMA StorageGasType ==
    ASSUME NEW old \in Value, NEW new \in Value
    PROVE  StorageGas(old, new) \in Uint /\ StorageRefund(old, new) \in Uint
<1>1. old \in Uint /\ new \in Uint
    BY StorageAssumption
<1>2. new > old => new - old \in Uint
    BY <1>1, MaxUintAssumption DEF Uint
<1>3. old > new => old - new \in Uint
    BY <1>1, MaxUintAssumption DEF Uint
<1>4. /\ StorePerByte \in Uint /\ PersistPerByte \in Uint
      /\ ReleasePerByte \in Uint /\ DataCopyPerByte \in Uint
    BY StorageAssumption
<1>5. /\ MulUint64(DataCopyPerByte, new) \in Uint /\ MulUint64(StorePerByte, new) \in Uint
      /\ MulUint64(PersistPerByte, new) \in Uint /\ MulUint64(PersistPerByte, old) \in Uint
    BY <1>1, <1>4, WordTypes
<1>6. new > old => MulUint64(StorePerByte, new - old) \in Uint
    BY <1>2, <1>4, WordTypes
<1>7. new > old => AddUint64(MulUint64(PersistPerByte, old), MulUint64(StorePerByte, new - old)) \in Uint
    BY <1>5, <1>6, WordTypes
<1>8. StorageRefund(old, new) \in Uint
    BY <1>3, <1>4, WordTypes, ZeroIsWord DEF StorageRefund
<1>9. StorageGas(old, new) \in Uint
    BY <1>5, <1>7, ZeroIsWord DEF StorageGas, StorageStatus
<1> QED BY <1>8, <1>9

-----------------------------------------------------------------------------
(* Every context stack has one state per call in progress *)

stackVars == <<calls, outputStack, meteringStack, runtimeStack, instanceStack,
               bigIntStack, snapshots, addressStack>>

\* The frames of the calls: the first one, and only that, is the run itself.
CallsInv ==
    /\ phase = "idle" => calls = <<>>
    /\ phase # "idle" => calls # <<>>
    /\ \A i \in DOMAIN calls : calls[i].kind = "top" <=> i = 1
    /\ \A i \in DOMAIN calls : calls[i].kind \in {"top", "dest", "same"}

\* The inductive invariant.  StacksAligned alone does not say that a callee is
\* below another frame, without which nothing could be popped.
AlignedInv ==
    /\ IsStack(calls)
    /\ IsStack(outputStack) /\ IsStack(meteringStack) /\ IsStack(runtimeStack)
    /\ IsStack(instanceStack) /\ IsStack(bigIntStack) /\ IsStack(snapshots)
    /\ IsStack(addressStack)
    /\ CallsInv
    /\ StacksAligned

\* Steps that neither make a call nor end one.
LEMMA QuietAligned ==
    ASSUME AlignedInv, UNCHANGED stackVars, phase # "idle" <=> phase' # "idle"
    PROVE  AlignedInv'
BY DEF AlignedInv, CallsInv, StacksAligned, Nested, stackVars

\* PushState on every context, on the storage context for "dest" only.
LEMMA PushAligned ==
    ASSUME AlignedInv, phase # "idle", phase' # "idle",
           NEW frame, frame.kind \in {"dest", "same"},
           calls' = Append(calls, frame),
           \E o : outputStack' = Append(outputStack, o),
           \E m : meteringStack' = Append(meteringStack, m),
           \E r : runtimeStack' = Append(runtimeStack, r),
           \E i : instanceStack' = Append(instanceStack, i),
           \E b : bigIntStack' = Append(bigIntStack, b),
           \E n : snapshots' = Append(snapshots, n),
           IF frame.kind = "dest" THEN \E a : addressStack' = Append(addressStack, a)
           ELSE addressStack' = addressStack
    PROVE  AlignedInv'
<1>1. /\ IsStack(calls')
      /\ IsStack(outputStack') /\ IsStack(meteringStack') /\ IsStack(runtimeStack')
      /\ IsStack(instanceStack') /\ IsStack(bigIntStack') /\ IsStack(snapshots')
      /\ IsStack(addressStack')
    <2>1. \A s, e : IsStack(s) => IsStack(Append(s, e))
        BY StackPush
    <2>2. /\ IsStack(calls) /\ IsStack(outputStack) /\ IsStack(meteringStack)
          /\ IsStack(runtimeStack) /\ IsStack(instanceStack) /\ IsStack(bigIntStack)
          /\ IsStack(snapshots) /\ IsStack(addressStack)
        BY DEF AlignedInv
    <2>3. IsStack(calls') /\ IsStack(outputStack') /\ IsStack(meteringStack')
        BY <2>1, <2>2
    <2>4. IsStack(runtimeStack') /\ IsStack(instanceStack')
        BY <2>1, <2>2
    <2>5. IsStack(bigIntStack') /\ IsStack(snapshots') /\ IsStack(addressStack')
        BY <2>1, <2>2
    <2> QED BY <2>3, <2>4, <2>5
<1>2. CallsInv'
    <2>1. /\ Len(calls) \in Nat /\ DOMAIN calls = 1 .. Len(calls)
          /\ Len(calls') = Len(calls) + 1
          /\ DOMAIN calls' = 1 .. Len(calls) + 1
          /\ \A k \in 1 .. Len(calls) : calls'[k] = calls[k]
          /\ calls'[Len(calls) + 1] = frame
        BY StackPush DEF AlignedInv
    <2>2. IsStack(calls) /\ calls # <<>>
        BY DEF AlignedInv, CallsInv
    <2>3. Len(calls) # 0
        BY <2>2, StackEmpty
    <2>4. calls' # <<>>
        <3>1. Len(calls') # 0
            BY <2>1
        <3> QED BY <3>1, StackEmpty
    <2> QED BY <2>1, <2>3, <2>4 DEF AlignedInv, CallsInv
<1>3. StacksAligned'
    <2>1. \A K : /\ CountOf(calls, K) \in Nat
                 /\ CountOf(calls', K) = CountOf(calls, K) + IF frame.kind \in K THEN 1 ELSE 0
        BY CountPush DEF AlignedInv
    <2>2. /\ Len(outputStack') = Len(outputStack) + 1
          /\ Len(meteringStack') = Len(meteringStack) + 1
          /\ Len(runtimeStack') = Len(runtimeStack) + 1
          /\ Len(instanceStack') = Len(instanceStack) + 1
          /\ Len(bigIntStack') = Len(bigIntStack) + 1
          /\ Len(snapshots') = Len(snapshots) + 1
          /\ Len(addressStack') = Len(addressStack) + IF frame.kind = "dest" THEN 1 ELSE 0
        <3>1. Len(outputStack') = Len(outputStack) + 1
            BY StackPush DEF AlignedInv
        <3>2. Len(meteringStack') = Len(meteringStack) + 1
            BY StackPush DEF AlignedInv
        <3>3. Len(runtimeStack') = Len(runtimeStack) + 1
            BY StackPush DEF AlignedInv
        <3>4. Len(instanceStack') = Len(instanceStack) + 1
            BY StackPush DEF AlignedInv
        <3>5. Len(bigIntStack') = Len(bigIntStack) + 1
            BY StackPush DEF AlignedInv
        <3>6. Len(snapshots') = Len(snapshots) + 1
            BY StackPush DEF AlignedInv
        <3>7. CASE frame.kind = "dest"
            <4>1. Len(addressStack') = Len(addressStack) + 1
                BY <3>7, StackPush DEF AlignedInv
            <4> QED BY <3>1, <3>2, <3>3, <3>4, <3>5, <3>6, <3>7, <4>1
        <3>8. CASE frame.kind # "dest"
            <4>1. Len(addressStack) \in Nat
                BY StackEmpty DEF AlignedInv, IsStack
            <4>2. addressStack' = addressStack
                BY <3>8
            <4> QED BY <3>1, <3>2, <3>3, <3>4, <3>5, <3>6, <3>8, <4>1, <4>2
        <3> QED BY <3>7, <3>8
    <2>3. /\ CountOf(calls', {"dest"}) =
                CountOf(calls, {"dest"}) + IF frame.kind = "dest" THEN 1 ELSE 0
          /\ CountOf(calls', {"dest", "same"}) = CountOf(calls, {"dest", "same"}) + 1
        BY <2>1
    <2>4. \A K : CountOf(calls, K) = Nested(K) /\ CountOf(calls', K) = Nested(K)'
        BY DEF CountOf, Nested
    <2> QED BY <2>2, <2>3, <2>4 DEF AlignedInv, StacksAligned
<1> QED BY <1>1, <1>2, <1>3 DEF AlignedInv

\* PopSetActiveState, PopMergeActiveState or PopDiscard on every context, on the
\* storage context for "dest" only.  All the stacks that are popped have a state.
LEMMA PopAligned ==
    ASSUME AlignedInv, phase # "idle", phase' # "idle",
           Last(calls).kind \in {"dest", "same"},
           calls' = Front(calls),
           outputStack' = Front(outputStack),
           meteringStack' = Front(meteringStack),
           runtimeStack' = Front(runtimeStack),
           instanceStack' = Front(instanceStack),
           bigIntStack' = Front(bigIntStack),
           snapshots' = Front(snapshots),
           addressStack' = IF Last(calls).kind = "dest" THEN Front(addressStack)
                           ELSE addressStack
    PROVE  AlignedInv'
<1>1. /\ calls # <<>> /\ Len(calls) \in Nat \ {0} /\ DOMAIN calls = 1 .. Len(calls)
      /\ IsStack(calls') /\ Len(calls') = Len(calls) - 1
      /\ DOMAIN calls' = 1 .. Len(calls) - 1
      /\ \A k \in 1 .. Len(calls) - 1 : calls'[k] = calls[k]
      /\ Last(calls) = calls[Len(calls)]
    BY StackPop DEF AlignedInv, CallsInv
<1>2. Len(calls) # 1
    BY <1>1 DEF AlignedInv, CallsInv
<1>3. CallsInv'
    <2>1. calls' # <<>>
        BY <1>1, <1>2, StackEmpty
    <2> QED BY <1>1, <1>2, <2>1 DEF AlignedInv, CallsInv
<1>4. \A K : CountOf(calls, K) = Nested(K) /\ CountOf(calls', K) = Nested(K)'
    BY DEF CountOf, Nested
<1>5. \A K : /\ CountOf(calls', K) \in Nat
             /\ CountOf(calls, K) =
                    CountOf(calls', K) + IF Last(calls).kind \in K THEN 1 ELSE 0
    BY <1>1, CountPop DEF AlignedInv
<1>6. /\ Nested({"dest"})' \in Nat /\ Nested({"dest", "same"})' \in Nat
      /\ Nested({"dest"}) = Nested({"dest"})' + IF Last(calls).kind = "dest" THEN 1 ELSE 0
      /\ Nested({"dest", "same"}) = Nested({"dest", "same"})' + 1
    BY <1>4, <1>5
<1>7. /\ outputStack # <<>> /\ meteringStack # <<>> /\ runtimeStack # <<>>
      /\ instanceStack # <<>> /\ bigIntStack # <<>> /\ snapshots # <<>>
      /\ Last(calls).kind = "dest" => addressStack # <<>>
    BY <1>6, StackEmpty DEF AlignedInv, StacksAligned
<1>8. /\ IsStack(outputStack') /\ Len(outputStack') = Len(outputStack) - 1
      /\ IsStack(meteringStack') /\ Len(meteringStack') = Len(meteringStack) - 1
      /\ IsStack(runtimeStack') /\ Len(runtimeStack') = Len(runtimeStack) - 1
      /\ IsStack(instanceStack') /\ Len(instanceStack') = Len(instanceStack) - 1
      /\ IsStack(bigIntStack') /\ Len(bigIntStack') = Len(bigIntStack) - 1
      /\ IsStack(snapshots') /\ Len(snapshots') = Len(snapshots) - 1
    BY <1>7, StackPop DEF AlignedInv
<1>9. /\ IsStack(addressStack')
      /\ Len(addressStack') =
            Len(addressStack) - IF Last(calls).kind = "dest" THEN 1 ELSE 0
    <2>1. CASE Last(calls).kind = "dest"
        BY <1>7, <2>1, StackPop DEF AlignedInv
    <2>2. CASE Last(calls).kind # "dest"
        BY <2>2, StackEmpty DEF AlignedInv
    <2> QED BY <2>1, <2>2
<1>10. StacksAligned'
    BY <1>6, <1>8, <1>9 DEF AlignedInv, StacksAligned
<1> QED BY <1>1, <1>3, <1>8, <1>9, <1>10 DEF AlignedInv

-----------------------------------------------------------------------------
(* The inductive invariant *)

\* The runtime of an execution: its contract and its caller are accounts, and an
\* upgrade brings code.
Execution ==
    {r \in Runtime : /\ r.scAddress \in Address /\ r.caller \in Address
                     /\ r.function = "upgradeContract" => r.code \in Code}

\* Only ExecuteOnDestContext creates contracts.
CallFrame == {c \in Call : c.kind = "same" => c.hook # "createContract"}

\* The frames, and the runtimes and storage addresses of the calls in progress.
ActiveInv ==
    /\ calls \in Seq(CallFrame)
    /\ runtimeStack \in Seq(Execution) /\ addressStack \in Seq(Address)
    /\ phase # "idle" => runtime \in Execution /\ address \in Address

\* The instance i is the running contract's own.
Owned(i) ==
    /\ i # 0 /\ wasm[i].live
    /\ \A k \in DOMAIN instanceStack : instanceStack[k] # i

\* The callers in progress have different live instances, no other instance but
\* the active one is live, and between host.execute's first line and the start of
\* the callee the active instance is still the caller's.
InstancesInv ==
    /\ \A k \in DOMAIN instanceStack : instanceStack[k] # 0 /\ wasm[instanceStack[k]].live
    /\ \A j, k \in DOMAIN instanceStack : instanceStack[j] = instanceStack[k] => j = k
    /\ \A i \in InstanceIds \ {0} :
          /\ wasm[i].live => i = instance \/ \E k \in DOMAIN instanceStack : instanceStack[k] = i
          /\ ~wasm[i].live => wasm[i] = DeadInstance
    /\ phase = "idle" => instance = 0
    /\ phase = "running" => Owned(instance)
    /\ phase = "execute" => instanceStack # <<>> /\ instance = Last(instanceStack)
    /\ phase = "finish" => \/ instance = 0
                           \/ Owned(instance)
                           \/ instanceStack # <<>> /\ instance = Last(instanceStack)

\* One state of the callers' for every frame but the first.
DepthInv ==
    /\ IsStack(before)
    /\ Len(before) = Len(instanceStack)
    /\ phase # "idle" => Len(calls) = Len(before) + 1

\* What holds of the host apart from what the callers saved.
HostInv == AlignedInv /\ TypeOK /\ ActiveInv /\ InstancesInv /\ DepthInv

\* All that a runtime state holds but readOnly.
SameCall(r, s) ==
    /\ r.scAddress = s.scAddress /\ r.caller = s.caller /\ r.callValue = s.callValue
    /\ r.gasProvided = s.gasProvided /\ r.function = s.function /\ r.code = s.code

\* What the caller k gets back.
SavedState(k) ==
    /\ outputStack[k].accounts = before[k].output.accounts
    /\ outputStack[k].logs = before[k].output.logs
    /\ outputStack[k].refund = before[k].output.refund
    /\ meteringStack[k] = before[k].metering
    /\ bigIntStack[k] = before[k].bigInt
    /\ snapshots[k] = before[k].journal
    /\ instanceStack[k] = before[k].instance
    /\ before[k].runtime \in Runtime /\ SameCall(before[k].runtime, runtimeStack[k])

\* The instances of the callees of caller k.
CalleeInstance(k, i) ==
    i = instance \/ \E j \in DOMAIN instanceStack : j > k /\ instanceStack[j] = i

\* An instance that a callee started after the call was dead at the call.
SavedInstances(k) ==
    \A i \in InstanceIds \ {0} : i # instanceStack[k] =>
        before[k].wasm[i] = IF CalleeInstance(k, i) THEN DeadInstance ELSE wasm[i]

\* The calls up to the k-th that pushed a storage address.
DestCalls(k) == Cardinality({i \in 1 .. k : calls[i].kind = "dest"})

\* The storage address under which the k-th frame works.
StorageAddress(k) == IF k <= Len(before) THEN before[k].address ELSE address

\* The storage address of caller k: on the stack, or shared with its callee.
SavedAddress(k) ==
    /\ calls[k + 1].kind = "dest" => addressStack[DestCalls(k + 1)] = before[k].address
    /\ calls[k + 1].kind = "same" => StorageAddress(k + 1) = before[k].address

\* All that the callers saved can be given back.
CallersInv ==
    \A k \in DOMAIN before : SavedState(k) /\ SavedInstances(k) /\ SavedAddress(k)

\* What identifies the active instance and those that wait.
WasmVars == <<instance, instanceStack>>

\* What TypeOK and DepthInv say of the instances.
LEMMA InstanceTypes ==
    ASSUME TypeOK
    PROVE  /\ wasm \in Instances
           /\ instance \in InstanceIds
           /\ instanceStack \in Seq(InstanceIds) /\ IsStack(instanceStack)
           /\ Len(instanceStack) \in Nat /\ DOMAIN instanceStack = 1 .. Len(instanceStack)
           /\ \A k \in DOMAIN instanceStack : instanceStack[k] \in InstanceIds
<1>1. wasm \in Instances /\ instance \in InstanceIds /\ instanceStack \in Seq(InstanceIds)
    BY DEF TypeOK, Instances
<1>2. /\ Len(instanceStack) \in Nat /\ DOMAIN instanceStack = 1 .. Len(instanceStack)
      /\ \A k \in DOMAIN instanceStack : instanceStack[k] \in InstanceIds
    BY <1>1, LenProperties
<1> QED BY <1>1, <1>2 DEF IsStack

\* Points used by the running contract, or by its API functions.
LEMMA QuietInstances ==
    ASSUME TypeOK, InstancesInv, phase = "running",
           OnlyPoints(wasm, wasm', instance), UNCHANGED WasmVars,
           phase' \in {"running", "finish"}
    PROVE  InstancesInv'
<1>1. instance # 0 /\ wasm[instance].live /\ instance \in InstanceIds
    BY InstanceTypes DEF InstancesInv, Owned
<1>2. \A i \in InstanceIds \ {0} : wasm'[i].live = wasm[i].live
    BY <1>1 DEF OnlyPoints
<1>3. \A i \in InstanceIds \ {0} : ~wasm'[i].live => wasm'[i] = wasm[i]
    BY <1>1 DEF OnlyPoints
<1>4. /\ \A k \in DOMAIN instanceStack : instanceStack[k] # 0 /\ wasm'[instanceStack[k]].live
      /\ Owned(instance)'
    BY <1>1, <1>2, InstanceTypes DEF InstancesInv, Owned, WasmVars
<1>5. \A i \in InstanceIds \ {0} :
          /\ wasm'[i].live => i = instance \/ \E k \in DOMAIN instanceStack : instanceStack[k] = i
          /\ ~wasm'[i].live => wasm'[i] = DeadInstance
    BY <1>2, <1>3 DEF InstancesInv
<1> QED BY <1>4, <1>5 DEF InstancesInv, WasmVars

\* runtime.PushState pushes the caller's instance, which stays active.
LEMMA PushInstances ==
    ASSUME TypeOK, InstancesInv, phase = "running",
           OnlyPoints(wasm, wasm', instance), instance' = instance,
           instanceStack' = Append(instanceStack, instance),
           phase' \in {"execute", "finish"}
    PROVE  InstancesInv'
<1> DEFINE n == Len(instanceStack)
<1>1. instance # 0 /\ wasm[instance].live /\ instance \in InstanceIds
    BY InstanceTypes DEF InstancesInv, Owned
<1>2. \A i \in InstanceIds \ {0} : wasm'[i].live = wasm[i].live
    BY <1>1 DEF OnlyPoints
<1>3. \A i \in InstanceIds \ {0} : ~wasm'[i].live => wasm'[i] = wasm[i]
    BY <1>1 DEF OnlyPoints
<1>4. /\ n \in Nat /\ DOMAIN instanceStack = 1 .. n
      /\ IsStack(instanceStack')
      /\ Len(instanceStack') = n + 1
      /\ DOMAIN instanceStack' = 1 .. n + 1
      /\ \A k \in 1 .. n : instanceStack'[k] = instanceStack[k]
      /\ instanceStack'[n + 1] = instance
    BY StackPush, InstanceTypes
<1>5. instanceStack' # <<>> /\ Last(instanceStack') = instance
    <2>1. instanceStack' # <<>>
        BY <1>4, StackEmpty
    <2> QED BY <2>1, <1>4, StackPop
<1> HIDE DEF n
<1>6. \A k \in DOMAIN instanceStack' : instanceStack'[k] # 0 /\ wasm'[instanceStack'[k]].live
    BY <1>1, <1>2, <1>4, InstanceTypes DEF InstancesInv
<1>7. \A j, k \in DOMAIN instanceStack' : instanceStack'[j] = instanceStack'[k] => j = k
    BY <1>4 DEF InstancesInv, Owned
<1>8. \A i \in InstanceIds \ {0} :
          /\ wasm'[i].live => i = instance' \/ \E k \in DOMAIN instanceStack' : instanceStack'[k] = i
          /\ ~wasm'[i].live => wasm'[i] = DeadInstance
    BY <1>2, <1>3, <1>4 DEF InstancesInv
<1> QED BY <1>5, <1>6, <1>7, <1>8 DEF InstancesInv

\* Wasmer has room for an instance as long as fewer contracts are waiting.
LEMMA FreshInstanceExists ==
    ASSUME TypeOK, NEW w \in Instances, Len(instanceStack) < MaxWasmerInstances,
           \A i \in InstanceIds \ {0} :
                w[i].live => \E k \in DOMAIN instanceStack : instanceStack[k] = i
    PROVE  FreshInstance(w) \in InstanceIds \ {0} /\ ~w[FreshInstance(w)].live
<1> DEFINE held == {instanceStack[k] : k \in DOMAIN instanceStack}
<1>1. Len(instanceStack) \in Nat /\ MaxWasmerInstances \in Nat \ {0}
    BY InstanceTypes, VMHostAssumption
<1>2. IsFiniteSet(held) /\ Cardinality(held) \in Nat /\ Cardinality(held) <= Len(instanceStack)
    BY InstanceTypes, StackCardinality
<1>4. \E i \in InstanceIds \ {0} : ~w[i].live
    <2> SUFFICES ASSUME \A i \in InstanceIds \ {0} : w[i].live PROVE FALSE
        OBVIOUS
    <2>1. 1 .. MaxWasmerInstances \subseteq held
        BY <1>1 DEF InstanceIds
    <2>2. Cardinality(1 .. MaxWasmerInstances) = MaxWasmerInstances
        BY <1>1, FS_Interval
    <2>3. Cardinality(1 .. MaxWasmerInstances) <= Cardinality(held)
        <3> HIDE DEF held
        <3> QED BY <1>2, <2>1, FS_Subset
    <2> QED BY <1>1, <1>2, <2>2, <2>3
<1> QED BY <1>4 DEF FreshInstance

\* Wasmer starts an instance for the contract that was called, or refuses to.
LEMMA StartInstances ==
    ASSUME TypeOK, InstancesInv, phase \in {"idle", "execute"},
           phase = "idle" => instanceStack = <<>>,
           NEW w, OnlyPoints(wasm, w, instance),
           metering' \in Metering, instanceStack' = instanceStack,
           NEW code, StartWasmerInstance(code, w)
    PROVE  /\ InstancesInv' /\ wasm' \in Instances /\ instance' \in InstanceIds
           /\ phase' \in {"running", "finish"} /\ err' \in Errors
           /\ \A i \in InstanceIds \ {0} : i # instance /\ i # instance' => wasm'[i] = wasm[i]
           /\ instance' # 0 => wasm[instance'] = DeadInstance
           /\ \A k \in DOMAIN instanceStack : instanceStack[k] # instance'
<1>1. instance = 0 \/ \E k \in DOMAIN instanceStack : instanceStack[k] = instance
    <2>1. CASE phase = "idle"
        BY <2>1 DEF InstancesInv
    <2>2. CASE phase = "execute"
        BY <2>2, InstanceTypes, StackPop DEF InstancesInv
    <2> QED BY <2>1, <2>2
<1>2. \A i \in InstanceIds \ {0} :
         /\ w[i].live = wasm[i].live
         /\ w[i].live => \E k \in DOMAIN instanceStack : instanceStack[k] = i
         /\ ~w[i].live => w[i] = DeadInstance /\ wasm[i] = DeadInstance
    <2>1. \A i \in InstanceIds \ {0} : w[i].live = wasm[i].live /\ (i # instance => w[i] = wasm[i])
        BY DEF OnlyPoints
    <2>2. \A i \in InstanceIds \ {0} : wasm[i].live => \E k \in DOMAIN instanceStack : instanceStack[k] = i
        BY <1>1 DEF InstancesInv
    <2>3. \A i \in InstanceIds \ {0} : ~wasm[i].live => wasm[i] = DeadInstance
        BY DEF InstancesInv
    <2>4. \A i \in InstanceIds \ {0} : ~wasm[i].live => i # instance
        BY <1>1 DEF InstancesInv
    <2> QED BY <2>1, <2>2, <2>3, <2>4
<1>3. \A k \in DOMAIN instanceStack : instanceStack[k] \in InstanceIds \ {0} /\ w[instanceStack[k]].live
    BY <1>2, InstanceTypes DEF InstancesInv
<1>4. w \in Instances /\ \A i \in InstanceIds \ {0} : i # instance => w[i] = wasm[i]
    BY DEF OnlyPoints
<1>5. CASE instance' = 0 /\ wasm' = w /\ phase' = "finish" /\ err' \in {"ErrMaxInstancesReached", "ErrContractInvalid"}
    <2>1. 0 \in InstanceIds
        BY VMHostAssumption DEF InstanceIds
    <2>2. InstancesInv'
        BY <1>2, <1>3, <1>5 DEF InstancesInv
    <2> QED BY <2>1, <2>2, <1>3, <1>4, <1>5 DEF Errors
<1>6. CASE /\ Len(instanceStack) < MaxWasmerInstances
           /\ instance' = FreshInstance(w)
           /\ wasm' = [w EXCEPT ![instance'] =
                [used |-> 0, limit |-> metering'.gasForExecution, live |-> TRUE]]
           /\ phase' = "running" /\ err' = "nil"
    <2> DEFINE started == [used |-> 0, limit |-> metering'.gasForExecution, live |-> TRUE]
    <2>1. instance' \in InstanceIds \ {0} /\ ~w[instance'].live
        BY <1>2, <1>4, <1>6, FreshInstanceExists
    <2>2. started \in Instance /\ started.live
        BY Bounds DEF Metering, Instance
    <2>3. wasm' = [w EXCEPT ![instance'] = started]
        BY <1>6
    <2> HIDE DEF started
    <2>4. wasm' \in Instances /\ wasm'[instance'] = started
        BY <1>4, <2>1, <2>2, <2>3 DEF Instances
    <2>5. \A i \in InstanceIds \ {0} : i # instance' => wasm'[i] = w[i]
        BY <1>4, <2>1, <2>3 DEF Instances
    <2>6. \A k \in DOMAIN instanceStack : instanceStack[k] # instance'
        BY <1>3, <2>1
    <2>7. InstancesInv'
        <3>1. \A k \in DOMAIN instanceStack : instanceStack[k] # 0 /\ wasm'[instanceStack[k]].live
            BY <1>3, <2>5, <2>6
        <3>2. \A i \in InstanceIds \ {0} :
                /\ wasm'[i].live => i = instance' \/ \E k \in DOMAIN instanceStack : instanceStack[k] = i
                /\ ~wasm'[i].live => wasm'[i] = DeadInstance
            BY <1>2, <2>2, <2>4, <2>5
        <3>3. Owned(instance)'
            BY <2>1, <2>2, <2>4, <2>6 DEF Owned
        <3> QED BY <1>6, <3>1, <3>2, <3>3 DEF InstancesInv
    <2> QED BY <1>2, <1>4, <1>6, <2>1, <2>4, <2>5, <2>6, <2>7 DEF Errors
<1>7. Len(instanceStack) \in Nat /\ MaxWasmerInstances \in Nat
    BY InstanceTypes, VMHostAssumption
<1> QED BY <1>5, <1>6, <1>7 DEF StartWasmerInstance

\* The callee fails before it has an instance of its own.
LEMMA FailedInstances ==
    ASSUME TypeOK, InstancesInv, phase \in {"idle", "execute"},
           OnlyPoints(wasm, wasm', instance), UNCHANGED WasmVars, phase' = "finish"
    PROVE  InstancesInv'
<1>1. \A i \in InstanceIds \ {0} : wasm'[i].live = wasm[i].live /\ (i # instance => wasm'[i] = wasm[i])
    BY DEF OnlyPoints
<1>2. instance # 0 => wasm[instance].live
    <2>1. CASE phase = "idle"
        BY <2>1 DEF InstancesInv
    <2>2. CASE phase = "execute"
        BY <2>2, InstanceTypes, StackPop DEF InstancesInv
    <2> QED BY <2>1, <2>2
<1>3. \A i \in InstanceIds \ {0} : ~wasm'[i].live => wasm'[i] = DeadInstance
    BY <1>1, <1>2 DEF InstancesInv
<1>4. \A k \in DOMAIN instanceStack : instanceStack[k] # 0 /\ wasm'[instanceStack[k]].live
    BY <1>1, InstanceTypes DEF InstancesInv
<1> QED BY <1>1, <1>3, <1>4 DEF InstancesInv, WasmVars

\* runtime.PopSetActiveState cleans the callee's instance and makes the caller's
\* the active one again.
LEMMA PopInstances ==
    ASSUME TypeOK, InstancesInv, phase = "finish", instanceStack # <<>>,
           OnlyPoints(PoppedInstances, wasm', Last(instanceStack)),
           instance' = Last(instanceStack), instanceStack' = Front(instanceStack),
           phase' \in {"running", "finish"}
    PROVE  /\ InstancesInv'
           /\ \A i \in InstanceIds \ {0} : i # instance' =>
                 wasm'[i] = IF i = instance THEN DeadInstance ELSE wasm[i]
<1> DEFINE n == Len(instanceStack)
           caller == Last(instanceStack)
<1>1. /\ n \in Nat \ {0} /\ DOMAIN instanceStack = 1 .. n
      /\ DOMAIN instanceStack' = 1 .. n - 1
      /\ \A k \in 1 .. n - 1 : instanceStack'[k] = instanceStack[k]
      /\ caller = instanceStack[n]
    BY InstanceTypes, StackPop
<1>2. /\ caller \in InstanceIds \ {0} /\ wasm[caller].live
      /\ \A k \in 1 .. n - 1 : instanceStack[k] # caller
    BY <1>1, InstanceTypes DEF InstancesInv
<1>3. instance = 0 \/ instance = caller \/ Owned(instance)
    BY DEF InstancesInv
<1>4. \A i \in InstanceIds \ {0} : PoppedInstances[i] =
            IF i = instance /\ i # caller THEN DeadInstance ELSE wasm[i]
    BY <1>2, InstanceTypes, CleanType DEF PoppedInstances
<1>5. \A i \in InstanceIds \ {0} :
         /\ wasm'[i].live = PoppedInstances[i].live
         /\ i # caller => wasm'[i] = PoppedInstances[i]
    BY DEF OnlyPoints
<1> HIDE DEF n, caller
<1>6. \A i \in InstanceIds \ {0} : i # caller =>
            wasm'[i] = IF i = instance THEN DeadInstance ELSE wasm[i]
    BY <1>4, <1>5
<1>7. wasm'[caller].live
    BY <1>2, <1>4, <1>5
<1>8. ~DeadInstance.live
    BY DEF DeadInstance
<1>9. \A k \in 1 .. n - 1 :
         /\ instanceStack[k] \in InstanceIds \ {0} /\ instanceStack[k] # caller
         /\ instanceStack[k] # instance /\ wasm'[instanceStack[k]].live
    <2> TAKE k \in 1 .. n - 1
    <2>1. k \in DOMAIN instanceStack
        BY <1>1
    <2>2. instanceStack[k] \in InstanceIds \ {0} /\ instanceStack[k] # caller /\ wasm[instanceStack[k]].live
        BY <2>1, <1>2, InstanceTypes DEF InstancesInv
    <2>3. instanceStack[k] # instance
        BY <1>3, <2>1, <2>2 DEF Owned
    <2> QED BY <1>6, <2>2, <2>3
<1>10. \A i \in InstanceIds \ {0} :
          /\ wasm'[i].live => i = caller \/ \E k \in 1 .. n - 1 : instanceStack[k] = i
          /\ ~wasm'[i].live => wasm'[i] = DeadInstance
    <2> TAKE i \in InstanceIds \ {0}
    <2>1. CASE i = caller
        BY <1>7, <2>1
    <2>2. CASE i # caller /\ i = instance
        BY <1>6, <1>8, <2>2
    <2>3. CASE i # caller /\ i # instance
        <3>1. wasm'[i] = wasm[i]
            BY <1>6, <2>3
        <3>2. wasm[i].live => \E k \in 1 .. n : instanceStack[k] = i
            BY <1>1, <2>3 DEF InstancesInv
        <3>3. \A k \in 1 .. n : k = n \/ k \in 1 .. n - 1
            BY <1>1
        <3> QED BY <1>1, <2>3, <3>1, <3>2, <3>3 DEF InstancesInv
    <2> QED BY <2>1, <2>2, <2>3
<1>11. instance' = caller
    BY DEF caller
<1>12. InstancesInv'
    <2>1. Owned(instance)'
        BY <1>1, <1>2, <1>7, <1>11 DEF Owned
    <2>2. \A j, k \in DOMAIN instanceStack' : instanceStack'[j] = instanceStack'[k] => j = k
        BY <1>1 DEF InstancesInv
    <2> QED BY <1>1, <1>9, <1>10, <1>11, <2>1, <2>2 DEF InstancesInv
<1> QED BY <1>6, <1>11, <1>12

-----------------------------------------------------------------------------
(* Steps that make no call, and steps that make one *)

\* The inductive invariant.
FramesInv == HostInv /\ CallersInv

\* What every step does that neither starts a run nor ends a call.
KeepsFrames == FramesInv' /\ Len(calls') >= Len(calls)

\* The stacks, and what identifies the caller of each frame.
frameVars == <<calls, before, outputStack, meteringStack, runtime, runtimeStack,
               instanceStack, address, addressStack, bigIntStack, snapshots>>

\* What is saved for the callers does not depend on what a callee does with the
\* rest of the state, as long as it leaves their instances alone.
LEMMA QuietCallers ==
    ASSUME CallersInv, UNCHANGED frameVars,
           \A k \in DOMAIN before : SavedInstances(k)'
    PROVE  CallersInv'
<1>1. ASSUME NEW k \in DOMAIN before PROVE SavedState(k)'
    <2>1. SavedState(k)
        BY DEF CallersInv
    <2> QED BY <2>1 DEF SavedState, SameCall, frameVars
<1>2. ASSUME NEW k \in DOMAIN before PROVE SavedAddress(k)'
    <2>1. SavedAddress(k)
        BY DEF CallersInv
    <2>2. \A j : DestCalls(j)' = DestCalls(j) /\ StorageAddress(j)' = StorageAddress(j)
        BY DEF DestCalls, StorageAddress, frameVars
    <2> QED BY <2>1, <2>2 DEF SavedAddress, frameVars
<1>3. before' = before
    BY DEF frameVars
<1> QED BY <1>1, <1>2, <1>3 DEF CallersInv

\* A step of the running contract that neither calls another nor ends.
LEMMA QuietFrames ==
    ASSUME FramesInv, phase = "running",
           phase' \in {"running", "finish"}, err' \in Errors, status' \in {0, 1},
           output' \in VMOutput, metering' \in Metering, codeUpdates' \in SUBSET Address,
           OnlyPoints(wasm, wasm', instance), bigInt' \in Nat, journal' \in Nat,
           UNCHANGED <<frameVars, instance, result>>
    PROVE  KeepsFrames
<1> USE DEF frameVars
<1>1. AlignedInv'
    BY QuietAligned DEF FramesInv, HostInv, stackVars
<1>2. wasm' \in Instances
    BY DEF OnlyPoints
<1>3. TypeOK'
    <2>1. wasm' \in [InstanceIds \ {0} -> Instance]
        BY <1>2 DEF Instances
    <2> QED BY <2>1 DEF FramesInv, HostInv, TypeOK, Phases
<1>4. ActiveInv'
    BY DEF FramesInv, HostInv, ActiveInv
<1>5. InstancesInv'
    BY QuietInstances DEF FramesInv, HostInv, WasmVars
<1>6. DepthInv'
    BY DEF FramesInv, HostInv, DepthInv
<1>7. CallersInv'
    <2>1. ASSUME NEW k \in DOMAIN before PROVE SavedInstances(k)'
        <3>1. SavedInstances(k)
            BY DEF FramesInv, CallersInv
        <3>2. \A i : CalleeInstance(k, i)' <=> CalleeInstance(k, i)
            BY DEF CalleeInstance
        <3>3. \A i \in InstanceIds \ {0} : ~CalleeInstance(k, i) => wasm'[i] = wasm[i]
            BY DEF CalleeInstance, OnlyPoints
        <3> QED BY <3>1, <3>2, <3>3 DEF SavedInstances
    <2> QED BY <2>1, QuietCallers DEF FramesInv
<1>8. Len(calls') >= Len(calls)
    BY StackEmpty DEF FramesInv, HostInv, AlignedInv
<1> QED BY <1>1, <1>3, <1>4, <1>5, <1>6, <1>7, <1>8 DEF KeepsFrames, FramesInv, HostInv

\* A "dest" frame has its place on the stack of storage addresses.
DestPlaces == \A k \in DOMAIN calls :
    calls[k].kind = "dest" => DestCalls(k) \in 1 .. Len(addressStack)

\* The "dest" frames are as many as the saved storage addresses.
LEMMA DestCallsBound ==
    ASSUME AlignedInv
    PROVE  /\ DestCalls(Len(calls)) = Len(addressStack)
           /\ Len(addressStack) \in Nat
           /\ DestPlaces
<1> DEFINE All == {i \in DOMAIN calls : calls[i].kind \in {"dest"}}
<1>1. Len(calls) \in Nat /\ DOMAIN calls = 1 .. Len(calls)
    BY StackEmpty DEF AlignedInv
<1>2. Cardinality(All) = Len(addressStack)
    BY DEF AlignedInv, StacksAligned, Nested
<1>3. All = {i \in 1 .. Len(calls) : calls[i].kind = "dest"}
    BY <1>1
<1>4. IsFiniteSet(All)
    <2>1. IsFiniteSet(1 .. Len(calls))
        BY <1>1, FS_Interval
    <2>2. All \in SUBSET (1 .. Len(calls))
        BY <1>1
    <2> QED BY <2>1, <2>2, FS_Subset
<1>5. ASSUME NEW k \in DOMAIN calls, calls[k].kind = "dest"
      PROVE  DestCalls(k) \in 1 .. Len(addressStack)
    <2> DEFINE Below == {i \in 1 .. k : calls[i].kind = "dest"}
    <2>1. Below \in SUBSET All /\ k \in Below
        BY <1>1, <1>5
    <2> HIDE DEF All, Below
    <2>2. IsFiniteSet(Below) /\ Cardinality(Below) <= Cardinality(All)
        BY <1>4, <2>1, FS_Subset
    <2>3. Cardinality(Below) \in Nat /\ Cardinality(All) \in Nat /\ Cardinality(Below) # 0
        BY <1>4, <2>1, <2>2, FS_CardinalityType, FS_EmptySet
    <2>4. Cardinality(Below) \in 1 .. Len(addressStack)
        BY <1>2, <2>2, <2>3
    <2> QED BY <2>4 DEF DestCalls, Below
<1>6. DestCalls(Len(calls)) = Len(addressStack)
    BY <1>2, <1>3 DEF DestCalls
<1>7. Len(addressStack) \in Nat
    BY StackEmpty DEF AlignedInv
<1> QED BY <1>5, <1>6, <1>7 DEF DestPlaces

\* All stacks but that of the storage context are as long as the callers are many.
LEMMA StackLengths ==
    ASSUME AlignedInv, DepthInv
    PROVE  LET n == Len(before) IN
           /\ n \in Nat /\ DOMAIN before = 1 .. n
           /\ Len(outputStack) = n /\ DOMAIN outputStack = 1 .. n
           /\ Len(meteringStack) = n /\ DOMAIN meteringStack = 1 .. n
           /\ Len(runtimeStack) = n /\ DOMAIN runtimeStack = 1 .. n
           /\ Len(instanceStack) = n /\ DOMAIN instanceStack = 1 .. n
           /\ Len(bigIntStack) = n /\ DOMAIN bigIntStack = 1 .. n
           /\ Len(snapshots) = n /\ DOMAIN snapshots = 1 .. n
<1>1. \A s : IsStack(s) => Len(s) \in Nat /\ DOMAIN s = 1 .. Len(s)
    BY StackEmpty
<1>2. /\ IsStack(before) /\ IsStack(outputStack) /\ IsStack(meteringStack) /\ IsStack(runtimeStack)
      /\ IsStack(instanceStack) /\ IsStack(bigIntStack) /\ IsStack(snapshots)
    BY DEF AlignedInv, DepthInv
<1>3. /\ Len(outputStack) = Len(before) /\ Len(meteringStack) = Len(before)
      /\ Len(runtimeStack) = Len(before) /\ Len(instanceStack) = Len(before)
      /\ Len(bigIntStack) = Len(before) /\ Len(snapshots) = Len(before)
    BY DEF AlignedInv, DepthInv, StacksAligned
<1> QED BY <1>1, <1>2, <1>3

\* What a call saves: an output that gives the caller its accounts back.
Saves(saved, out) ==
    saved.accounts = out.accounts /\ saved.logs = out.logs /\ saved.refund = out.refund

\* A call: every context is pushed.
LEMMA PushFrames ==
    ASSUME FramesInv, phase = "running",
           NEW frame \in CallFrame, frame.kind \in {"dest", "same"},
           NEW out, NEW saved \in VMOutput, Saves(saved, out),
           NEW r \in Execution, SameCall(runtime, r),
           NEW m \in Metering, NEW w, OnlyPoints(wasm, w, instance),
           calls' = Append(calls, frame),
           before' = Append(before, Contexts(out, m, w)),
           outputStack' = Append(outputStack, saved), output' \in VMOutput,
           meteringStack' = Append(meteringStack, m), metering' \in Metering,
           runtimeStack' = Append(runtimeStack, r), runtime' \in Execution,
           instanceStack' = Append(instanceStack, instance),
           bigIntStack' = Append(bigIntStack, bigInt), bigInt' \in Nat,
           snapshots' = Append(snapshots, journal), journal' \in Nat,
           wasm' = w, codeUpdates' \in SUBSET Address,
           phase' \in {"execute", "finish"}, err' \in Errors,
           UNCHANGED <<instance, result, status>>,
           IF frame.kind = "dest"
           THEN addressStack' = Append(addressStack, address) /\ address' \in Address
           ELSE UNCHANGED <<address, addressStack>>
    PROVE  KeepsFrames
<1> DEFINE n == Len(before)
<1>1. AlignedInv'
    <2>1. AlignedInv /\ phase # "idle" /\ phase' # "idle"
        BY DEF FramesInv, HostInv
    <2>2. /\ \E o : outputStack' = Append(outputStack, o)
          /\ \E o : meteringStack' = Append(meteringStack, o)
          /\ \E o : runtimeStack' = Append(runtimeStack, o)
          /\ \E o : instanceStack' = Append(instanceStack, o)
          /\ \E o : bigIntStack' = Append(bigIntStack, o)
          /\ \E o : snapshots' = Append(snapshots, o)
        OBVIOUS
    <2>3. IF frame.kind = "dest" THEN \E a : addressStack' = Append(addressStack, a)
          ELSE addressStack' = addressStack
        OBVIOUS
    <2>4. frame.kind \in {"dest", "same"} /\ calls' = Append(calls, frame)
        OBVIOUS
    <2> QED BY ONLY <2>1, <2>2, <2>3, <2>4, PushAligned
<1>2. InstancesInv'
    BY PushInstances DEF FramesInv, HostInv
<1>3. /\ TypeOK /\ ActiveInv /\ DepthInv /\ CallersInv /\ AlignedInv
      /\ address \in Address /\ runtime \in Execution
    BY DEF FramesInv, HostInv, ActiveInv
<1>4. TypeOK'
    <2>1. /\ wasm' \in [InstanceIds \ {0} -> Instance]
          /\ instance' \in InstanceIds /\ result' \in Result /\ status' \in {0, 1}
          /\ phase' \in Phases
        BY <1>3 DEF OnlyPoints, Instances, TypeOK, Phases
    <2>2. calls' \in Seq(Call) /\ outputStack' \in Seq(VMOutput)
        <3>1. frame \in Call
            BY DEF CallFrame
        <3> QED BY <1>3, <3>1, AppendProperties DEF TypeOK
    <2>3. /\ meteringStack' \in Seq(Metering) /\ instanceStack' \in Seq(InstanceIds)
          /\ bigIntStack' \in Seq(Nat) /\ snapshots' \in Seq(Nat)
        BY <1>3, AppendProperties DEF TypeOK
    <2>4. Execution \subseteq Runtime
        BY DEF Execution
    <2>5. runtimeStack' \in Seq(Runtime) /\ runtime' \in Runtime
        BY <1>3, <2>4, AppendProperties DEF TypeOK
    <2>6. addressStack' \in Seq(Address \cup {NoAddress}) /\ address' \in Address \cup {NoAddress}
        <3> DEFINE S == Address \cup {NoAddress}
        <3>1. address \in S /\ addressStack \in Seq(S)
            BY <1>3 DEF TypeOK
        <3>2. Append(addressStack, address) \in Seq(S)
            <4> HIDE DEF S
            <4> QED BY <3>1, AppendProperties
        <3> QED BY <3>1, <3>2
    <2> QED BY <2>1, <2>2, <2>3, <2>5, <2>6 DEF TypeOK
<1>5. ActiveInv'
    <2>1. runtimeStack' \in Seq(Execution)
        BY <1>3, AppendProperties DEF ActiveInv
    <2>2. addressStack' \in Seq(Address) /\ address' \in Address
        <3>1. addressStack \in Seq(Address)
            BY <1>3 DEF ActiveInv
        <3>2. Append(addressStack, address) \in Seq(Address)
            BY <1>3, <3>1, AppendProperties
        <3> QED BY <1>3, <3>1, <3>2
    <2>3. calls' \in Seq(CallFrame)
        BY <1>3, AppendProperties DEF ActiveInv
    <2> QED BY <2>1, <2>2, <2>3 DEF ActiveInv
<1>6. /\ n \in Nat /\ Len(instanceStack) = n /\ Len(calls) = n + 1
      /\ DOMAIN before = 1 .. n /\ DOMAIN before' = 1 .. n + 1
      /\ IsStack(before') /\ Len(before') = n + 1
      /\ \A k \in 1 .. n : before'[k] = before[k]
      /\ before'[n + 1] = Contexts(out, m, w)
    <2>1. IsStack(before) /\ Len(before) = Len(instanceStack) /\ Len(calls) = Len(before) + 1
        BY <1>3 DEF DepthInv
    <2>2. before' = Append(before, Contexts(out, m, w))
        OBVIOUS
    <2> QED BY ONLY <2>1, <2>2, StackPush
<1>7. DepthInv'
    <2>1. IsStack(instanceStack) /\ IsStack(calls)
        BY <1>3 DEF AlignedInv
    <2>2. Len(instanceStack') = n + 1
        BY ONLY <1>6, <2>1, instanceStack' = Append(instanceStack, instance), StackPush
    <2>3. Len(calls') = n + 2
        <3>1. Len(calls') = Len(calls) + 1
            BY ONLY <2>1, calls' = Append(calls, frame), StackPush
        <3>2. n \in Nat /\ Len(calls) = n + 1
            BY <1>6
        <3> QED BY ONLY <3>1, <3>2
    <2> QED BY <1>6, <2>2, <2>3 DEF DepthInv
<1>l. /\ Len(outputStack) = n /\ Len(meteringStack) = n /\ Len(runtimeStack) = n
      /\ Len(instanceStack) = n /\ Len(bigIntStack) = n /\ Len(snapshots) = n
      /\ DOMAIN instanceStack = 1 .. n
    BY <1>3, StackLengths
<1>p. ASSUME NEW s, NEW e, IsStack(s), Len(s) = n
      PROVE  /\ \A k \in 1 .. n : Append(s, e)[k] = s[k]
             /\ Append(s, e)[n + 1] = e
    BY <1>p, StackPush
<1>s. /\ \A k \in 1 .. n : /\ outputStack'[k] = outputStack[k] /\ meteringStack'[k] = meteringStack[k]
                           /\ runtimeStack'[k] = runtimeStack[k]
                           /\ bigIntStack'[k] = bigIntStack[k] /\ snapshots'[k] = snapshots[k]
      /\ outputStack'[n + 1] = saved /\ meteringStack'[n + 1] = m /\ runtimeStack'[n + 1] = r
      /\ bigIntStack'[n + 1] = bigInt /\ snapshots'[n + 1] = journal
    <2> HIDE DEF n
    <2>1. (\A k \in 1 .. n : outputStack'[k] = outputStack[k]) /\ outputStack'[n + 1] = saved
        <3>1. IsStack(outputStack) /\ Len(outputStack) = n
            BY <1>3, <1>l DEF AlignedInv
        <3>2. outputStack' = Append(outputStack, saved)
            OBVIOUS
        <3> QED BY ONLY <1>p, <3>1, <3>2
    <2>2. (\A k \in 1 .. n : meteringStack'[k] = meteringStack[k]) /\ meteringStack'[n + 1] = m
        <3>1. IsStack(meteringStack) /\ Len(meteringStack) = n
            BY <1>3, <1>l DEF AlignedInv
        <3>2. meteringStack' = Append(meteringStack, m)
            OBVIOUS
        <3> QED BY ONLY <1>p, <3>1, <3>2
    <2>3. (\A k \in 1 .. n : runtimeStack'[k] = runtimeStack[k]) /\ runtimeStack'[n + 1] = r
        <3>1. IsStack(runtimeStack) /\ Len(runtimeStack) = n
            BY <1>3, <1>l DEF AlignedInv
        <3>2. runtimeStack' = Append(runtimeStack, r)
            OBVIOUS
        <3> QED BY ONLY <1>p, <3>1, <3>2
    <2>4. (\A k \in 1 .. n : bigIntStack'[k] = bigIntStack[k]) /\ bigIntStack'[n + 1] = bigInt
        <3>1. IsStack(bigIntStack) /\ Len(bigIntStack) = n
            BY <1>3, <1>l DEF AlignedInv
        <3>2. bigIntStack' = Append(bigIntStack, bigInt)
            OBVIOUS
        <3> QED BY ONLY <1>p, <3>1, <3>2
    <2>5. (\A k \in 1 .. n : snapshots'[k] = snapshots[k]) /\ snapshots'[n + 1] = journal
        <3>1. IsStack(snapshots) /\ Len(snapshots) = n
            BY <1>3, <1>l DEF AlignedInv
        <3>2. snapshots' = Append(snapshots, journal)
            OBVIOUS
        <3> QED BY ONLY <1>p, <3>1, <3>2
    <2> QED BY <2>1, <2>2, <2>3, <2>4, <2>5
<1>i. /\ \A k \in 1 .. n : instanceStack'[k] = instanceStack[k]
      /\ instanceStack'[n + 1] = instance
      /\ DOMAIN instanceStack' = 1 .. n + 1
    <2> HIDE DEF n
    <2>1. IsStack(instanceStack) /\ Len(instanceStack) = n
        BY <1>3, <1>l DEF AlignedInv
    <2>2. instanceStack' = Append(instanceStack, instance)
        OBVIOUS
    <2>3. DOMAIN instanceStack' = 1 .. n + 1
        BY ONLY <2>1, <2>2, StackPush
    <2> QED BY ONLY <1>p, <2>1, <2>2, <2>3
<1> HIDE DEF n
<1>8. ASSUME NEW k \in 1 .. n + 1 PROVE SavedState(k)'
    <2>1. CASE k \in 1 .. n
        <3>1. SavedState(k)
            BY <1>3, <1>6, <2>1 DEF CallersInv
        <3> QED BY <3>1, <1>6, <1>s, <1>i, <2>1 DEF SavedState, SameCall
    <2>2. CASE k = n + 1
        <3>1. /\ Contexts(out, m, w).output = out /\ Contexts(out, m, w).metering = m
              /\ Contexts(out, m, w).bigInt = bigInt /\ Contexts(out, m, w).journal = journal
              /\ Contexts(out, m, w).instance = instance /\ Contexts(out, m, w).runtime = runtime
            BY DEF Contexts
        <3>2. runtime \in Runtime
            BY <1>3 DEF Execution
        <3>3. before'[k] = Contexts(out, m, w)
            BY <1>6, <2>2
        <3>4. /\ outputStack'[k] = saved /\ meteringStack'[k] = m /\ runtimeStack'[k] = r
              /\ bigIntStack'[k] = bigInt /\ snapshots'[k] = journal
              /\ instanceStack'[k] = instance
            BY ONLY <1>s, <1>i, <2>2
        <3>5. Saves(saved, out) /\ SameCall(runtime, r)
            OBVIOUS
        <3> QED BY ONLY <3>1, <3>2, <3>3, <3>4, <3>5 DEF SavedState, Saves
    <2> QED BY <1>6, <2>1, <2>2
<1>9. ASSUME NEW k \in 1 .. n + 1 PROVE SavedInstances(k)'
    <2>1. CASE k \in 1 .. n
        <3>1. SavedInstances(k)
            BY <1>3, <1>6, <2>1 DEF CallersInv
        <3>2. \A i : CalleeInstance(k, i)' <=> CalleeInstance(k, i)
            <4> TAKE i
            <4>1. ASSUME CalleeInstance(k, i) PROVE CalleeInstance(k, i)'
                BY <1>6, <1>l, <1>i, <2>1, <4>1 DEF CalleeInstance
            <4>2. ASSUME CalleeInstance(k, i)' PROVE CalleeInstance(k, i)
                <5>1. CASE i = instance'
                    BY <5>1 DEF CalleeInstance
                <5>2. CASE \E j \in 1 .. n + 1 : j > k /\ instanceStack'[j] = i
                    <6>1. PICK j \in 1 .. n + 1 : j > k /\ instanceStack'[j] = i
                        BY <5>2
                    <6>2. CASE j = n + 1
                        BY <1>i, <6>1, <6>2 DEF CalleeInstance
                    <6>3. CASE j \in 1 .. n
                        BY <1>i, <1>l, <6>1, <6>3 DEF CalleeInstance
                    <6> QED BY <1>6, <6>2, <6>3
                <5> QED BY <1>i, <4>2, <5>1, <5>2 DEF CalleeInstance
            <4> QED BY <4>1, <4>2
        <3>3. \A i \in InstanceIds \ {0} : ~CalleeInstance(k, i) => wasm'[i] = wasm[i]
            BY DEF CalleeInstance, OnlyPoints
        <3>4. before'[k] = before[k] /\ instanceStack'[k] = instanceStack[k]
            BY <1>6, <1>i, <2>1
        <3> QED BY <3>1, <3>2, <3>3, <3>4 DEF SavedInstances
    <2>2. CASE k = n + 1
        <3>1. \A i : i # instance => ~CalleeInstance(k, i)'
            BY <1>6, <1>i, <2>2 DEF CalleeInstance
        <3>2. before'[k].wasm = wasm' /\ instanceStack'[k] = instance
            BY <1>6, <1>i, <2>2 DEF Contexts
        <3> QED BY <3>1, <3>2 DEF SavedInstances
    <2> QED BY <1>6, <2>1, <2>2
<1>10. ASSUME NEW k \in 1 .. n + 1 PROVE SavedAddress(k)'
    <2>c. /\ \A j \in 1 .. n + 1 : calls'[j] = calls[j]
          /\ calls'[n + 2] = frame /\ Len(calls') = n + 2
          /\ DOMAIN calls = 1 .. n + 1
        <3>1. /\ \A j \in 1 .. Len(calls) : calls'[j] = calls[j]
              /\ calls'[Len(calls) + 1] = frame /\ Len(calls') = Len(calls) + 1
              /\ DOMAIN calls = 1 .. Len(calls)
            BY <1>3, StackPush DEF AlignedInv
        <3>2. n \in Nat /\ Len(calls) = n + 1 /\ Len(calls) + 1 = n + 2
            BY <1>6
        <3> QED BY ONLY <3>1, <3>2
    <2>d. \A j \in 1 .. n + 1 : DestCalls(j)' = DestCalls(j)
        <3> TAKE j \in 1 .. n + 1
        <3>1. \A i \in 1 .. j : calls'[i] = calls[i]
            <4>1. \A i \in 1 .. j : i \in 1 .. n + 1
                BY <1>6
            <4> QED BY ONLY <4>1, <2>c
        <3>2. {i \in 1 .. j : calls'[i].kind = "dest"} = {i \in 1 .. j : calls[i].kind = "dest"}
            BY <3>1
        <3> QED BY <3>2 DEF DestCalls
    <2>a. \A j \in 1 .. Len(addressStack) : addressStack'[j] = addressStack[j]
        <3>1. IsStack(addressStack)
            BY <1>3 DEF AlignedInv
        <3>2. \A j \in 1 .. Len(addressStack) : Append(addressStack, address)[j] = addressStack[j]
            BY <3>1, StackPush
        <3> QED BY <3>2
    <2>1. CASE k \in 1 .. n
        <3>1. SavedAddress(k)
            BY <1>3, <1>6, <2>1 DEF CallersInv
        <3>2. calls'[k + 1] = calls[k + 1] /\ DestCalls(k + 1)' = DestCalls(k + 1) /\ k + 1 \in DOMAIN calls
            <4>1. k + 1 \in 1 .. n + 1
                BY <1>6, <2>1
            <4> QED BY ONLY <4>1, <2>c, <2>d
        <3>3. calls[k + 1].kind = "dest" => DestCalls(k + 1) \in 1 .. Len(addressStack)
            BY <1>3, <3>2, DestCallsBound DEF DestPlaces
        <3>4. before'[k].address = before[k].address
            BY <1>6, <2>1
        <3>5. StorageAddress(k + 1)' = StorageAddress(k + 1)
            <4>1. CASE k + 1 \in 1 .. n
                BY <1>6, <2>1, <4>1 DEF StorageAddress, n
            <4>2. CASE k + 1 = n + 1
                <5>1. StorageAddress(k + 1) = address
                    BY <1>6, <4>2 DEF StorageAddress, n
                <5>2. StorageAddress(k + 1)' = before'[n + 1].address
                    BY <1>6, <4>2 DEF StorageAddress
                <5>3. before'[n + 1].address = address
                    BY <1>6 DEF Contexts
                <5> QED BY <5>1, <5>2, <5>3
            <4> QED BY <1>6, <2>1, <4>1, <4>2
        <3>6. calls[k + 1].kind = "dest" =>
                addressStack'[DestCalls(k + 1)'] = addressStack[DestCalls(k + 1)]
            BY <2>a, <3>2, <3>3
        <3> QED BY <3>1, <3>2, <3>4, <3>5, <3>6 DEF SavedAddress
    <2>2. CASE k = n + 1
        <3>1. before'[k].address = address
            BY <1>6, <2>2 DEF Contexts
        <3>2. calls'[k + 1] = frame
            BY <1>6, <2>2, <2>c
        <3>3. CASE frame.kind = "dest"
            <4>1. DestCalls(k + 1)' = Len(addressStack')
                <5>1. (AlignedInv => DestCalls(Len(calls)) = Len(addressStack))'
                    BY DestCallsBound, PTL
                <5>2. Len(calls') = k + 1
                    BY <1>6, <2>2, <2>c
                <5> QED BY <1>1, <5>1, <5>2 DEF DestCalls
            <4>2. addressStack'[Len(addressStack')] = address
                <5>1. IsStack(addressStack)
                    BY <1>3 DEF AlignedInv
                <5> QED BY <3>3, <5>1, StackPush
            <4> QED BY <3>1, <3>2, <3>3, <4>1, <4>2 DEF SavedAddress
        <3>4. CASE frame.kind = "same"
            <4>1. StorageAddress(k + 1)' = address'
                BY <1>6, <2>2 DEF StorageAddress
            <4> QED BY <3>1, <3>2, <3>4, <4>1 DEF SavedAddress
        <3> QED BY <3>3, <3>4
    <2> QED BY <1>6, <2>1, <2>2
<1>11. CallersInv'
    BY <1>6, <1>8, <1>9, <1>10 DEF CallersInv
<1>12. Len(calls') >= Len(calls)
    <2>1. Len(calls') = Len(calls) + 1 /\ Len(calls) \in Nat
        BY <1>3, StackPush DEF AlignedInv
    <2> QED BY <2>1
<1> QED BY <1>1, <1>2, <1>4, <1>5, <1>7, <1>11, <1>12 DEF KeepsFrames, FramesInv, HostInv

-----------------------------------------------------------------------------
(* The end of a call *)

\* The frame on top of the stacks, when a callee is finishing.
LEMMA TopFrame ==
    ASSUME FramesInv, phase # "idle", Last(calls).kind \in {"dest", "same"}
    PROVE  LET n == Len(before) IN
           /\ n \in Nat \ {0} /\ Len(calls) = n + 1 /\ before # <<>> /\ calls # <<>>
           /\ n \in DOMAIN before /\ Last(before) = before[n]
           /\ Last(calls) = calls[n + 1]
           /\ outputStack # <<>> /\ Last(outputStack) = outputStack[n] /\ Last(outputStack) \in VMOutput
           /\ meteringStack # <<>> /\ Last(meteringStack) = meteringStack[n] /\ Last(meteringStack) \in Metering
           /\ runtimeStack # <<>> /\ Last(runtimeStack) = runtimeStack[n] /\ Last(runtimeStack) \in Execution
           /\ instanceStack # <<>> /\ Last(instanceStack) = instanceStack[n]
           /\ Last(instanceStack) \in InstanceIds \ {0}
           /\ bigIntStack # <<>> /\ Last(bigIntStack) = bigIntStack[n] /\ Last(bigIntStack) \in Nat
           /\ snapshots # <<>> /\ Last(snapshots) = snapshots[n] /\ Last(snapshots) \in Nat
<1> DEFINE n == Len(before)
<1>1. AlignedInv /\ DepthInv /\ TypeOK /\ ActiveInv /\ InstancesInv
    BY DEF FramesInv, HostInv
<1>2. /\ n \in Nat /\ DOMAIN before = 1 .. n /\ Len(calls) = n + 1
      /\ Len(outputStack) = n /\ Len(meteringStack) = n /\ Len(runtimeStack) = n
      /\ Len(instanceStack) = n /\ Len(bigIntStack) = n /\ Len(snapshots) = n
    BY <1>1, StackLengths DEF DepthInv
<1>3. calls # <<>> /\ Last(calls) = calls[n + 1]
    BY <1>1, <1>2, StackPop DEF AlignedInv, CallsInv
<1>4. n # 0
    BY <1>1, <1>2, <1>3, StackEmpty DEF AlignedInv, CallsInv
<1> HIDE DEF n
<1>5. before # <<>> /\ Last(before) = before[n] /\ n \in DOMAIN before
    BY <1>1, <1>2, <1>4, StackEmpty, StackPop DEF DepthInv, n
<1>t. /\ outputStack \in Seq(VMOutput) /\ meteringStack \in Seq(Metering)
      /\ instanceStack \in Seq(InstanceIds) /\ bigIntStack \in Seq(Nat) /\ snapshots \in Seq(Nat)
      /\ runtimeStack \in Seq(Execution)
    BY <1>1 DEF TypeOK, ActiveInv
<1>e. ASSUME NEW T, NEW s \in Seq(T), Len(s) = n
      PROVE  s # <<>> /\ Last(s) = s[n] /\ Last(s) \in T
    <2>1. s # <<>>
        BY <1>2, <1>4, <1>e, EmptySeq
    <2> QED BY <2>1, <1>e, PopProperties
<1>6. outputStack # <<>> /\ Last(outputStack) = outputStack[n] /\ Last(outputStack) \in VMOutput
    BY ONLY <1>2, <1>t, <1>e
<1>7. meteringStack # <<>> /\ Last(meteringStack) = meteringStack[n] /\ Last(meteringStack) \in Metering
    BY ONLY <1>2, <1>t, <1>e
<1>8. runtimeStack # <<>> /\ Last(runtimeStack) = runtimeStack[n] /\ Last(runtimeStack) \in Execution
    BY ONLY <1>2, <1>t, <1>e
<1>9. /\ instanceStack # <<>> /\ Last(instanceStack) = instanceStack[n] /\ Last(instanceStack) \in InstanceIds
      /\ Last(instanceStack) # 0
    <2>1. instanceStack # <<>> /\ Last(instanceStack) = instanceStack[n] /\ Last(instanceStack) \in InstanceIds
        BY ONLY <1>2, <1>t, <1>e
    <2>2. n \in DOMAIN instanceStack
        BY <1>1, <1>2, <1>4, InstanceTypes
    <2> QED BY <1>1, <2>1, <2>2 DEF InstancesInv
<1>10. bigIntStack # <<>> /\ Last(bigIntStack) = bigIntStack[n] /\ Last(bigIntStack) \in Nat
    BY ONLY <1>2, <1>t, <1>e
<1>11. snapshots # <<>> /\ Last(snapshots) = snapshots[n] /\ Last(snapshots) \in Nat
    BY ONLY <1>2, <1>t, <1>e
<1> QED BY <1>2, <1>3, <1>4, <1>5, <1>6, <1>7, <1>8, <1>9, <1>10, <1>11 DEF n

\* The storage address that the caller had: it is on the stack when the callee has
\* another one, and still the active one when the callee shares it.
LEMMA TopAddress ==
    ASSUME FramesInv, phase # "idle", Last(calls).kind \in {"dest", "same"}
    PROVE  /\ Last(calls).kind = "dest" =>
                /\ addressStack # <<>> /\ Last(addressStack) \in Address
                /\ Last(addressStack) = Last(before).address
           /\ Last(calls).kind = "same" => address = Last(before).address
<1> DEFINE n == Len(before)
<1>1. /\ n \in Nat \ {0} /\ Len(calls) = n + 1 /\ n \in DOMAIN before
      /\ Last(before) = before[n] /\ Last(calls) = calls[n + 1] /\ calls # <<>>
    BY TopFrame
<1>2. AlignedInv /\ ActiveInv /\ SavedAddress(n)
    BY <1>1 DEF FramesInv, HostInv, CallersInv
<1>3. n + 1 \in DOMAIN calls
    BY <1>1, <1>2, StackEmpty DEF AlignedInv
<1> HIDE DEF n
<1>4. CASE Last(calls).kind = "dest"
    <2>1. /\ DestCalls(n + 1) = Len(addressStack) /\ Len(addressStack) \in Nat
          /\ DestCalls(n + 1) \in 1 .. Len(addressStack)
        BY <1>1, <1>2, <1>3, <1>4, DestCallsBound DEF DestPlaces
    <2>2. Len(addressStack) # 0
        BY <2>1
    <2>3. addressStack \in Seq(Address) /\ addressStack # <<>>
        BY <1>2, <2>2, EmptySeq DEF ActiveInv
    <2>4. Last(addressStack) = addressStack[Len(addressStack)] /\ Last(addressStack) \in Address
        BY <2>3, PopProperties
    <2> QED BY <1>1, <1>2, <1>4, <2>1, <2>3, <2>4 DEF SavedAddress
<1>5. CASE Last(calls).kind = "same"
    <2>1. StorageAddress(n + 1) = address
        BY <1>1 DEF StorageAddress, n
    <2> QED BY <1>1, <1>2, <1>5, <2>1 DEF SavedAddress
<1> QED BY <1>4, <1>5

\* The end of a call: every context is popped.
LEMMA PopFrames ==
    ASSUME FramesInv, phase = "finish", Last(calls).kind \in {"dest", "same"},
           calls' = Front(calls), before' = Front(before),
           outputStack' = Front(outputStack), output' \in VMOutput,
           meteringStack' = Front(meteringStack), metering' \in Metering,
           runtimeStack' = Front(runtimeStack), runtime' \in Execution,
           instanceStack' = Front(instanceStack), instance' = Last(instanceStack),
           bigIntStack' = Front(bigIntStack), bigInt' \in Nat,
           snapshots' = Front(snapshots), journal' \in Nat,
           OnlyPoints(PoppedInstances, wasm', Last(instanceStack)),
           codeUpdates' \in SUBSET Address,
           phase' \in {"running", "finish"}, err' \in Errors, status' \in {0, 1},
           result' = result,
           IF Last(calls).kind = "dest"
           THEN addressStack' = Front(addressStack) /\ address' = Last(addressStack)
           ELSE UNCHANGED <<address, addressStack>>
    PROVE  /\ FramesInv'
           /\ address' = Last(before).address
           /\ \A i \in InstanceIds \ {0} : i # instance' => wasm'[i] = Last(before).wasm[i]
<1> DEFINE n == Len(before)
<1>1. AlignedInv /\ DepthInv /\ TypeOK /\ ActiveInv /\ InstancesInv /\ CallersInv
    BY DEF FramesInv, HostInv
<1>2. /\ n \in Nat \ {0} /\ Len(calls) = n + 1 /\ calls # <<>> /\ before # <<>>
      /\ Last(before) = before[n] /\ n \in DOMAIN before
      /\ outputStack # <<>> /\ meteringStack # <<>> /\ runtimeStack # <<>>
      /\ instanceStack # <<>> /\ bigIntStack # <<>> /\ snapshots # <<>>
      /\ Last(instanceStack) = instanceStack[n] /\ Last(instanceStack) \in InstanceIds \ {0}
    BY TopFrame
<1>3. AlignedInv'
    <2>1. phase # "idle" /\ phase' # "idle"
        OBVIOUS
    <2>2. addressStack' = IF Last(calls).kind = "dest" THEN Front(addressStack) ELSE addressStack
        OBVIOUS
    <2> QED BY <1>1, <2>1, <2>2, PopAligned
<1>4. /\ InstancesInv'
      /\ \A i \in InstanceIds \ {0} : i # instance' =>
            wasm'[i] = IF i = instance THEN DeadInstance ELSE wasm[i]
    BY <1>1, <1>2, PopInstances
<1>5. /\ address' = Last(before).address /\ address' \in Address
      /\ addressStack' \in Seq(Address)
    <2>1. CASE Last(calls).kind = "dest"
        <3>1. addressStack # <<>> /\ addressStack \in Seq(Address)
            BY <1>1, <2>1, TopAddress DEF ActiveInv
        <3>2. Front(addressStack) \in Seq(Address)
            BY <3>1, PopProperties
        <3> QED BY <2>1, <3>2, TopAddress
    <2>2. CASE Last(calls).kind = "same"
        BY <1>1, <2>2, TopAddress DEF ActiveInv
    <2> QED BY <2>1, <2>2
<1>6. TypeOK'
    <2>1. /\ wasm' \in [InstanceIds \ {0} -> Instance]
          /\ instance' \in InstanceIds /\ result' \in Result /\ phase' \in Phases
        BY <1>1, <1>2 DEF OnlyPoints, Instances, TypeOK, Phases
    <2>2. calls' \in Seq(Call) /\ outputStack' \in Seq(VMOutput)
        BY <1>1, <1>2, PopProperties DEF TypeOK
    <2>3. /\ meteringStack' \in Seq(Metering) /\ instanceStack' \in Seq(InstanceIds)
          /\ runtimeStack' \in Seq(Runtime)
        BY <1>1, <1>2, PopProperties DEF TypeOK
    <2>4. bigIntStack' \in Seq(Nat) /\ snapshots' \in Seq(Nat)
        BY <1>1, <1>2, PopProperties DEF TypeOK
    <2>5. runtime' \in Runtime
        BY DEF Execution
    <2>6. addressStack' \in Seq(Address \cup {NoAddress}) /\ address' \in Address \cup {NoAddress}
        BY <1>5
    <2> QED BY <2>1, <2>2, <2>3, <2>4, <2>5, <2>6 DEF TypeOK
<1>7. ActiveInv'
    <2>1. runtimeStack' \in Seq(Execution)
        BY <1>1, <1>2, PopProperties DEF ActiveInv
    <2>2. calls' \in Seq(CallFrame)
        BY <1>1, <1>2, PopProperties DEF ActiveInv
    <2> QED BY <2>1, <2>2, <1>5 DEF ActiveInv
<1>8. /\ IsStack(before') /\ Len(before') = n - 1 /\ DOMAIN before' = 1 .. n - 1
      /\ \A k \in 1 .. n - 1 : before'[k] = before[k]
      /\ DOMAIN before = 1 .. n
    BY <1>1, <1>2, StackPop DEF DepthInv
<1>9. /\ Len(calls') = n /\ DOMAIN calls' = 1 .. n /\ IsStack(calls')
      /\ \A k \in 1 .. n : calls'[k] = calls[k]
      /\ DOMAIN calls = 1 .. n + 1
    <2>1. /\ Len(calls') = Len(calls) - 1 /\ DOMAIN calls' = 1 .. Len(calls) - 1 /\ IsStack(calls')
          /\ \A k \in 1 .. Len(calls) - 1 : calls'[k] = calls[k]
          /\ DOMAIN calls = 1 .. Len(calls)
        BY <1>1, <1>2, StackPop DEF AlignedInv
    <2> QED BY <1>2, <2>1
<1>l. /\ Len(outputStack) = n /\ Len(meteringStack) = n /\ Len(runtimeStack) = n
      /\ Len(instanceStack) = n /\ Len(bigIntStack) = n /\ Len(snapshots) = n
    BY <1>1, StackLengths
<1>i. /\ \A k \in 1 .. n - 1 : instanceStack'[k] = instanceStack[k]
      /\ DOMAIN instanceStack' = 1 .. n - 1 /\ DOMAIN instanceStack = 1 .. n
      /\ Len(instanceStack') = n - 1
    BY <1>1, <1>2, <1>l, StackPop DEF AlignedInv
<1>10. DepthInv'
    BY <1>2, <1>8, <1>9, <1>i DEF DepthInv
<1>p. ASSUME NEW s, IsStack(s), s # <<>>, Len(s) = n
      PROVE  \A k \in 1 .. n - 1 : Front(s)[k] = s[k]
    BY <1>p, StackPop
<1> HIDE DEF n
<1>s. \A k \in 1 .. n - 1 :
         /\ outputStack'[k] = outputStack[k] /\ meteringStack'[k] = meteringStack[k]
         /\ runtimeStack'[k] = runtimeStack[k]
         /\ bigIntStack'[k] = bigIntStack[k] /\ snapshots'[k] = snapshots[k]
    <2>1. /\ IsStack(outputStack) /\ IsStack(meteringStack) /\ IsStack(runtimeStack)
          /\ IsStack(bigIntStack) /\ IsStack(snapshots)
        BY <1>1 DEF AlignedInv
    <2>2. \A k \in 1 .. n - 1 : Front(outputStack)[k] = outputStack[k]
        BY ONLY <1>p, <1>l, <1>2, <2>1
    <2>3. \A k \in 1 .. n - 1 : Front(meteringStack)[k] = meteringStack[k]
        BY ONLY <1>p, <1>l, <1>2, <2>1
    <2>4. \A k \in 1 .. n - 1 : Front(runtimeStack)[k] = runtimeStack[k]
        BY ONLY <1>p, <1>l, <1>2, <2>1
    <2>5. \A k \in 1 .. n - 1 : Front(bigIntStack)[k] = bigIntStack[k]
        BY ONLY <1>p, <1>l, <1>2, <2>1
    <2>6. \A k \in 1 .. n - 1 : Front(snapshots)[k] = snapshots[k]
        BY ONLY <1>p, <1>l, <1>2, <2>1
    <2> QED BY <2>2, <2>3, <2>4, <2>5, <2>6
<1>11. ASSUME NEW k \in 1 .. n - 1 PROVE SavedState(k)'
    <2>1. SavedState(k)
        BY <1>1, <1>2, <1>8 DEF CallersInv
    <2>2. before'[k] = before[k] /\ instanceStack'[k] = instanceStack[k]
        BY <1>8, <1>i
    <2> QED BY <2>1, <2>2, <1>s DEF SavedState, SameCall
<1>12. ASSUME NEW k \in 1 .. n - 1 PROVE SavedInstances(k)'
    <2>1. SavedInstances(k) /\ before'[k] = before[k] /\ instanceStack'[k] = instanceStack[k]
        <3>1. k \in DOMAIN before
            BY <1>2, <1>8
        <3>2. SavedInstances(k)
            BY <1>1, <3>1 DEF CallersInv
        <3> QED BY ONLY <1>8, <1>i, <3>2, k \in 1 .. n - 1
    <2>2. \A i : CalleeInstance(k, i)' <=> \E j \in 1 .. n : j > k /\ instanceStack[j] = i
        <3> TAKE i
        <3>1. ASSUME CalleeInstance(k, i)' PROVE \E j \in 1 .. n : j > k /\ instanceStack[j] = i
            <4>1. CASE i = instance'
                BY <1>2, <4>1
            <4>2. CASE \E j \in 1 .. n - 1 : j > k /\ instanceStack'[j] = i
                BY <1>2, <1>i, <4>2
            <4> QED BY <1>i, <3>1, <4>1, <4>2 DEF CalleeInstance
        <3>2. ASSUME NEW j \in 1 .. n, j > k, instanceStack[j] = i PROVE CalleeInstance(k, i)'
            <4>1. CASE j = n
                BY <1>2, <3>2, <4>1 DEF CalleeInstance
            <4>2. CASE j \in 1 .. n - 1
                BY <1>i, <3>2, <4>2 DEF CalleeInstance
            <4> QED BY <1>2, <4>1, <4>2
        <3> QED BY <3>1, <3>2
    <2>3. \A i : CalleeInstance(k, i) <=> i = instance \/ CalleeInstance(k, i)'
        BY <1>i, <2>2 DEF CalleeInstance
    <2>4. \A i : i = instance' => CalleeInstance(k, i)'
        BY DEF CalleeInstance
    <2> QED BY <1>4, <2>1, <2>3, <2>4 DEF SavedInstances
<1>13. ASSUME NEW k \in 1 .. n - 1 PROVE SavedAddress(k)'
    <2>1. SavedAddress(k) /\ before'[k] = before[k]
        BY <1>1, <1>2, <1>8 DEF CallersInv
    <2>2. k + 1 \in 1 .. n /\ k + 1 \in DOMAIN calls' /\ calls'[k + 1] = calls[k + 1]
        BY <1>2, <1>9
    <2>3. DestCalls(k + 1)' = DestCalls(k + 1)
        <3>1. \A i \in 1 .. k + 1 : calls'[i] = calls[i]
            BY <1>2, <1>9
        <3>2. {i \in 1 .. k + 1 : calls'[i].kind = "dest"} = {i \in 1 .. k + 1 : calls[i].kind = "dest"}
            BY <3>1
        <3> QED BY <3>2 DEF DestCalls
    <2>4. calls'[k + 1].kind = "dest" => DestCalls(k + 1)' \in 1 .. Len(addressStack')
        <3>1. (AlignedInv => DestPlaces)'
            BY DestCallsBound, PTL
        <3>2. DestCalls(k + 1)' = Cardinality({i \in 1 .. k + 1 : calls'[i].kind = "dest"})
            BY DEF DestCalls
        <3> QED BY <1>3, <2>2, <3>1, <3>2 DEF DestCalls, DestPlaces
    <2>5. \A j \in 1 .. Len(addressStack') : addressStack'[j] = addressStack[j]
        <3>1. IsStack(addressStack)
            BY <1>1 DEF AlignedInv
        <3>2. CASE Last(calls).kind = "dest"
            <4>1. addressStack # <<>>
                BY <3>2, TopAddress
            <4> QED BY <3>1, <3>2, <4>1, StackPop
        <3>3. CASE Last(calls).kind # "dest"
            BY <3>3
        <3> QED BY <3>2, <3>3
    <2>6. StorageAddress(k + 1)' = StorageAddress(k + 1)
        <3>1. CASE k + 1 \in 1 .. n - 1
            BY <1>2, <1>8, <3>1 DEF StorageAddress, n
        <3>2. CASE k + 1 = n
            <4>1. StorageAddress(k + 1) = before[n].address
                BY <1>2, <3>2 DEF StorageAddress, n
            <4>2. StorageAddress(k + 1)' = address'
                BY <1>2, <1>8, <3>2 DEF StorageAddress
            <4> QED BY <1>2, <1>5, <4>1, <4>2
        <3> QED BY <1>2, <2>2, <3>1, <3>2
    <2> QED BY <2>1, <2>2, <2>3, <2>4, <2>5, <2>6 DEF SavedAddress
<1>14. CallersInv'
    BY <1>8, <1>11, <1>12, <1>13 DEF CallersInv
<1>15. \A i \in InstanceIds \ {0} : i # instance' => wasm'[i] = Last(before).wasm[i]
    <2>1. SavedInstances(n)
        BY <1>1, <1>2 DEF CallersInv
    <2>2. \A i : CalleeInstance(n, i) <=> i = instance
        BY <1>2, <1>i DEF CalleeInstance
    <2> QED BY <1>2, <1>4, <2>1, <2>2 DEF SavedInstances
<1> QED BY <1>3, <1>4, <1>5, <1>6, <1>7, <1>10, <1>14, <1>15 DEF FramesInv, HostInv

-----------------------------------------------------------------------------
(* The start and the end of a run, and host.execute *)

\* The first frame of a run, on empty stacks.
LEMMA RunAligned ==
    ASSUME AlignedInv, phase = "idle", phase' # "idle",
           NEW e, e.kind = "top", calls' = <<e>>,
           outputStack' = <<>>, meteringStack' = <<>>, runtimeStack' = <<>>,
           bigIntStack' = <<>>, addressStack' = <<>>,
           UNCHANGED <<instanceStack, snapshots>>
    PROVE  AlignedInv' /\ instanceStack = <<>> /\ snapshots = <<>>
<1>1. Nested({"dest"}) = 0 /\ Nested({"dest", "same"}) = 0
    BY CountEmpty DEF AlignedInv, CallsInv, Nested, CountOf
<1>2. Nested({"dest"})' = 0 /\ Nested({"dest", "same"})' = 0
    <2>1. IsStack(<<>>)
        BY StackEmpty
    <2>2. \A K : CountOf(Append(<<>>, e), K) =
            CountOf(<<>>, K) + IF e.kind \in K THEN 1 ELSE 0
        BY <2>1, CountPush, Zenon
    <2>3. calls' = Append(<<>>, e)
        OBVIOUS
    <2>4. CountOf(calls', {"dest"}) = 0 /\ CountOf(calls', {"dest", "same"}) = 0
        BY <2>2, <2>3, CountEmpty
    <2> QED BY <2>4 DEF Nested, CountOf
<1>3. IsStack(calls') /\ CallsInv'
    <2>1. calls' \in Seq({e}) /\ calls' # <<>> /\ DOMAIN calls' = {1} /\ calls'[1] = e
        OBVIOUS
    <2>2. IsStack(calls')
        BY <2>1 DEF IsStack
    <2> QED BY <2>1, <2>2 DEF CallsInv
<1>4. instanceStack = <<>> /\ snapshots = <<>>
    BY <1>1, StackEmpty DEF AlignedInv, StacksAligned
<1> QED BY <1>1, <1>2, <1>3, <1>4, StackEmpty DEF AlignedInv, StacksAligned

\* The only frame goes when the run ends.
LEMMA FinishAligned ==
    ASSUME AlignedInv, phase # "idle", Last(calls).kind = "top", phase' = "idle", calls' = <<>>,
           UNCHANGED <<outputStack, meteringStack, runtimeStack, instanceStack,
                       bigIntStack, snapshots, addressStack>>
    PROVE  AlignedInv' /\ instanceStack = <<>>
<1>1. /\ Len(calls) \in Nat \ {0} /\ Last(calls) = calls[Len(calls)]
      /\ DOMAIN calls = 1 .. Len(calls) /\ IsStack(Front(calls))
      /\ Len(Front(calls)) = Len(calls) - 1
    BY StackPop DEF AlignedInv, CallsInv
<1>2. Len(calls) = 1
    BY <1>1 DEF AlignedInv, CallsInv
<1>3. Front(calls) = <<>>
    BY <1>1, <1>2, StackEmpty
<1>4. Nested({"dest"}) = 0 /\ Nested({"dest", "same"}) = 0
    <2>1. calls # <<>> /\ IsStack(calls)
        BY DEF AlignedInv, CallsInv
    <2>2. \A K : CountOf(calls, K) =
            CountOf(Front(calls), K) + IF Last(calls).kind \in K THEN 1 ELSE 0
        BY <2>1, CountPop
    <2>3. CountOf(calls, {"dest"}) = 0 /\ CountOf(calls, {"dest", "same"}) = 0
        BY <1>3, <2>2, CountEmpty
    <2> QED BY <2>3 DEF Nested, CountOf
<1>5. Nested({"dest"})' = 0 /\ Nested({"dest", "same"})' = 0
    BY CountEmpty DEF Nested, CountOf
<1>6. instanceStack = <<>>
    BY <1>4, StackEmpty DEF AlignedInv, StacksAligned
<1> QED BY <1>4, <1>5, <1>6, StackEmpty DEF AlignedInv, CallsInv, StacksAligned

\* The first contract of a transaction begins, or fails to.
LEMMA RunFrames ==
    ASSUME FramesInv, StartRun, NEW input \in Execution, NEW out \in VMOutput, NEW cost \in Uint,
           InitContexts(input, out, cost),
           InstancesInv', wasm' \in Instances, instance' \in InstanceIds,
           phase' \in {"running", "finish"}, err' \in Errors
    PROVE  FramesInv'
<1> DEFINE top == [kind |-> "top", hook |-> "run", newAddress |-> NoAddress]
<1>1. AlignedInv /\ TypeOK
    BY DEF FramesInv, HostInv
<1>2. top \in Call /\ top \in CallFrame /\ top.kind = "top"
    BY DEF Call, CallFrame
<1>3. /\ phase = "idle" /\ calls' = <<top>> /\ before' = <<>> /\ status' = 0
      /\ result' = NoResult
    BY DEF StartRun
<1>4. /\ bigIntStack' = <<>> /\ bigInt' = 0 /\ outputStack' = <<>> /\ output' = out
      /\ codeUpdates' = {} /\ meteringStack' = <<>> /\ runtimeStack' = <<>> /\ runtime' = input
      /\ addressStack' = <<>> /\ address' = input.scAddress /\ journal' = 0
      /\ UNCHANGED <<instanceStack, snapshots>>
    BY DEF InitContexts
<1> HIDE DEF top
<1>5. AlignedInv' /\ instanceStack' = <<>> /\ snapshots' = <<>>
    <2>1. phase' # "idle"
        OBVIOUS
    <2> QED BY <1>1, <1>2, <1>3, <1>4, <2>1, RunAligned
<1>6. metering' \in Metering
    <2>1. input.gasProvided \in Uint
        BY DEF Execution, Runtime
    <2>2. MeteringFromInput(input.gasProvided) \in Metering
        BY <2>1, MeteringFromInputType
    <2>3. CASE CanDeductInitialGas(input.gasProvided, cost)
        <3>1. metering' = DeductInitialGas(MeteringFromInput(input.gasProvided), input.gasProvided, cost)
            BY <2>3 DEF InitContexts
        <3> QED BY <2>1, <2>2, <2>3, <3>1, DeductType
    <2>4. CASE ~CanDeductInitialGas(input.gasProvided, cost)
        <3>1. metering' = MeteringFromInput(input.gasProvided)
            BY <2>4 DEF InitContexts
        <3> QED BY <2>2, <3>1
    <2> QED BY <2>3, <2>4
<1>7. NoResult \in Result
    BY ZeroIsWord, NewVMOutputType DEF NoResult, Result, VMOutput, ReturnCodes
<1>8. runtime' \in Execution /\ runtime' \in Runtime /\ address' \in Address
    BY <1>4 DEF Execution
<1>9. TypeOK'
    <2>1. calls' \in Seq(Call)
        BY <1>2, <1>3
    <2>2. wasm' \in [InstanceIds \ {0} -> Instance]
        BY DEF Instances
    <2>3. phase' \in Phases /\ status' \in {0, 1} /\ bigInt' \in Nat /\ journal' \in Nat
        BY <1>3, <1>4 DEF Phases
    <2>4. \A T : <<>> \in Seq(T)
        OBVIOUS
    <2>5. codeUpdates' \in SUBSET Address /\ output' \in VMOutput /\ result' \in Result
        BY <1>3, <1>4, <1>7
    <2> QED BY <2>1, <2>2, <2>3, <2>4, <2>5, <1>3, <1>4, <1>5, <1>6, <1>8 DEF TypeOK
<1>10. ActiveInv'
    <2>1. \A T : <<>> \in Seq(T)
        OBVIOUS
    <2>2. calls' \in Seq(CallFrame)
        BY <1>2, <1>3
    <2> QED BY <2>1, <2>2, <1>4, <1>8 DEF ActiveInv
<1>11. DepthInv' /\ DOMAIN before' = {}
    <2>1. Len(calls') = 1
        BY <1>3
    <2>2. before' = <<>> /\ instanceStack' = <<>>
        BY <1>3, <1>5
    <2>3. IsStack(<<>>) /\ Len(<<>>) = 0
        BY StackEmpty
    <2>4. DOMAIN before' = {}
        BY <2>2
    <2> QED BY <2>1, <2>2, <2>3, <2>4 DEF DepthInv
<1>12. CallersInv'
    BY <1>11 DEF CallersInv
<1> QED BY <1>5, <1>9, <1>10, <1>11, <1>12 DEF FramesInv, HostInv

\* host.execute: the callee begins, or fails to.
LEMMA ExecuteFrames ==
    ASSUME FramesInv, phase = "execute",
           UNCHANGED <<frameVars, codeUpdates, bigInt, journal, status, result>>,
           output' \in VMOutput, metering' \in Metering,
           phase' \in {"running", "finish"}, err' \in Errors,
           InstancesInv', wasm' \in Instances, instance' \in InstanceIds,
           \A i \in InstanceIds \ {0} : i # instance /\ i # instance' => wasm'[i] = wasm[i],
           \/ instance' = instance
           \/ /\ instance' # 0 => wasm[instance'] = DeadInstance
              /\ \A k \in DOMAIN instanceStack : instanceStack[k] # instance'
    PROVE  KeepsFrames
<1> USE DEF frameVars
<1>1. AlignedInv /\ TypeOK /\ ActiveInv /\ InstancesInv /\ DepthInv /\ CallersInv
    BY DEF FramesInv, HostInv
<1>2. AlignedInv'
    <2>1. phase' # "idle" /\ phase # "idle"
        OBVIOUS
    <2> QED BY <1>1, <2>1, QuietAligned DEF stackVars
<1>3. TypeOK'
    <2>1. wasm' \in [InstanceIds \ {0} -> Instance] /\ phase' \in Phases
        BY DEF Instances, Phases
    <2> QED BY <1>1, <2>1 DEF TypeOK
<1>4. ActiveInv' /\ DepthInv'
    BY <1>1 DEF ActiveInv, DepthInv
<1>5. DOMAIN before = DOMAIN instanceStack /\ DOMAIN before = 1 .. Len(before) /\ Len(before) \in Nat
    BY <1>1, StackLengths
<1>6. \E n \in DOMAIN instanceStack : instance = instanceStack[n]
      /\ \A j \in DOMAIN instanceStack : j <= n
    <2>1. instanceStack # <<>> /\ instance = Last(instanceStack) /\ IsStack(instanceStack)
        BY <1>1 DEF InstancesInv, AlignedInv
    <2>2. /\ Last(instanceStack) = instanceStack[Len(instanceStack)]
          /\ Len(instanceStack) \in Nat \ {0} /\ DOMAIN instanceStack = 1 .. Len(instanceStack)
        BY <2>1, StackPop
    <2> QED BY <2>1, <2>2
<1>7. ASSUME NEW k \in DOMAIN before PROVE SavedInstances(k)'
    <2>1. SavedInstances(k)
        BY <1>1 DEF CallersInv
    <2>2. PICK n \in DOMAIN instanceStack : instance = instanceStack[n]
            /\ \A j \in DOMAIN instanceStack : j <= n
        BY <1>6
    <2>3. CASE instance' = instance
        <3>1. \A i : CalleeInstance(k, i)' <=> CalleeInstance(k, i)
            BY <2>3 DEF CalleeInstance
        <3>2. \A i \in InstanceIds \ {0} : ~CalleeInstance(k, i) => wasm'[i] = wasm[i]
            BY <2>3 DEF CalleeInstance
        <3> QED BY <2>1, <3>1, <3>2 DEF SavedInstances
    <2>4. CASE /\ instance' # 0 => wasm[instance'] = DeadInstance
               /\ \A j \in DOMAIN instanceStack : instanceStack[j] # instance'
        <3>1. \A i : i # instanceStack[k] =>
                (CalleeInstance(k, i) <=> \E j \in DOMAIN instanceStack : j > k /\ instanceStack[j] = i)
            <4> TAKE i
            <4> HAVE i # instanceStack[k]
            <4>1. ASSUME i = instance PROVE n > k
                <5>1. n # k
                    BY <2>2, <4>1
                <5>2. k <= n /\ k \in Nat /\ n \in Nat
                    BY <1>5, <2>2
                <5> QED BY <5>1, <5>2
            <4> QED BY <2>2, <4>1 DEF CalleeInstance
        <3>2. \A i : CalleeInstance(k, i)' <=>
                i = instance' \/ \E j \in DOMAIN instanceStack : j > k /\ instanceStack[j] = i
            BY DEF CalleeInstance
        <3>3. ASSUME NEW i \in InstanceIds \ {0}, i # instanceStack[k]
              PROVE  before[k].wasm[i] = IF CalleeInstance(k, i)' THEN DeadInstance ELSE wasm'[i]
            <4>1. before[k].wasm[i] = IF CalleeInstance(k, i) THEN DeadInstance ELSE wasm[i]
                BY <2>1, <3>3 DEF SavedInstances
            <4>2. CASE i = instance'
                <5>1. ~CalleeInstance(k, i)
                    BY <2>4, <3>1, <3>3, <4>2
                <5> QED BY <2>4, <3>2, <3>3, <4>1, <4>2, <5>1
            <4>3. CASE i # instance' /\ CalleeInstance(k, i)
                BY <3>1, <3>2, <3>3, <4>1, <4>3
            <4>4. CASE i # instance' /\ ~CalleeInstance(k, i)
                <5>1. i # instance
                    BY <4>4 DEF CalleeInstance
                <5>2. wasm'[i] = wasm[i]
                    BY <4>4, <5>1
                <5> QED BY <3>1, <3>2, <3>3, <4>1, <4>4, <5>2
            <4> QED BY <4>2, <4>3, <4>4
        <3> QED BY <3>3 DEF SavedInstances
    <2> QED BY <2>3, <2>4
<1>8. CallersInv'
    BY <1>1, <1>7, QuietCallers
<1>9. Len(calls') >= Len(calls)
    BY <1>1, StackEmpty DEF AlignedInv
<1> QED BY <1>2, <1>3, <1>4, <1>8, <1>9 DEF KeepsFrames, FramesInv, HostInv

\* The end of the run: no frame, no instance.
LEMMA FinishFrames ==
    ASSUME FramesInv, phase = "finish", Last(calls).kind = "top",
           phase' = "idle", calls' = <<>>, err' \in Errors, result' \in Result,
           output' \in VMOutput, metering' \in Metering,
           wasm' = Clean(wasm, instance), instance' = 0,
           UNCHANGED <<status, before, outputStack, codeUpdates, meteringStack, runtime,
                       runtimeStack, instanceStack, storageVars, bigIntVars,
                       blockchainVars>>
    PROVE  FramesInv'
<1> USE DEF storageVars, bigIntVars, blockchainVars
<1>1. AlignedInv /\ TypeOK /\ ActiveInv /\ InstancesInv /\ DepthInv
    BY DEF FramesInv, HostInv
<1>2. AlignedInv' /\ instanceStack = <<>>
    <2>1. phase # "idle"
        OBVIOUS
    <2> QED BY <1>1, <2>1, FinishAligned
<1>3. /\ wasm' \in Instances
      /\ \A i \in InstanceIds \ {0} : wasm'[i] = IF i = instance THEN DeadInstance ELSE wasm[i]
    BY <1>1, InstanceTypes, CleanType
<1>4. TypeOK'
    <2>1. wasm' \in [InstanceIds \ {0} -> Instance] /\ phase' \in Phases /\ instance' \in InstanceIds
        BY <1>3, VMHostAssumption DEF Instances, Phases, InstanceIds
    <2>2. calls' \in Seq(Call)
        OBVIOUS
    <2> QED BY <1>1, <2>1, <2>2 DEF TypeOK
<1>5. ActiveInv' /\ DepthInv'
    <2>1. calls' \in Seq(CallFrame)
        OBVIOUS
    <2> QED BY <1>1, <2>1 DEF ActiveInv, DepthInv
<1>6. DOMAIN instanceStack = {} /\ DOMAIN before = {}
    <2>1. Len(before) = 0 /\ DOMAIN before = 1 .. Len(before)
        BY <1>1, <1>2, StackEmpty DEF DepthInv
    <2> QED BY <1>2, <2>1
<1>7. \A i \in InstanceIds \ {0} : wasm'[i] = DeadInstance
    BY <1>1, <1>3, <1>6 DEF InstancesInv
<1>8. InstancesInv'
    BY <1>6, <1>7 DEF InstancesInv, DeadInstance
<1>9. CallersInv'
    BY <1>6 DEF CallersInv
<1> QED BY <1>2, <1>4, <1>5, <1>8, <1>9 DEF FramesInv, HostInv

-----------------------------------------------------------------------------
(* The copies of the output *)

\* Merging an account into an empty one gives the account.
LEMMA CopyAccount ==
    ASSUME NEW account \in Account
    PROVE  MergeOutputAccounts(NewVMOutputAccount, account) = account
<1> DEFINE t == account.transfers
           merged == MergeOutputAccounts(NewVMOutputAccount, account)
<1>1. t \in Seq(Uint)
    BY DEF Account
<1>2. <<>> \o SubSeq(t, Len(<<>>) + 1, Len(t)) = t
    <2> HIDE DEF t
    <2>1. Len(<<>>) + 1 = 1
        OBVIOUS
    <2>2. SubSeq(t, 1, Len(t)) = t
        BY <1>1
    <2> QED BY <1>1, <2>1, <2>2
<1>3. account.nonce \in Nat
    BY DEF Account
<1>4. account = [delta |-> account.delta, cell |-> account.cell, nonce |-> account.nonce,
                 code |-> account.code, transfers |-> account.transfers, gasUsed |-> account.gasUsed]
    BY DEF Account
<1>5. merged = [delta |-> account.delta, cell |-> account.cell, nonce |-> account.nonce,
                 code |-> account.code, transfers |-> account.transfers, gasUsed |-> account.gasUsed]
    BY <1>2, <1>3 DEF MergeOutputAccounts, NewVMOutputAccount
<1> QED BY <1>4, <1>5

\* What output.PushState keeps, and what PopMergeActiveState installs, is a copy.
LEMMA CopyOfSaves ==
    ASSUME NEW out \in VMOutput
    PROVE  CopyOf(out) \in VMOutput /\ Saves(CopyOf(out), out)
<1>1. CopyOf(out) \in VMOutput
    BY NewVMOutputType, MergeType DEF CopyOf
<1>2. /\ out.accounts \in [Address -> Account \cup {NoAccount}]
      /\ out.logs \in Nat
    BY DEF VMOutput, Accounts
<1>3. ASSUME NEW a \in Address
      PROVE  CopyOf(out).accounts[a] = out.accounts[a]
    <2>1. NewVMOutput.accounts[a] = NoAccount /\ AccountOf(NewVMOutput, a) = NewVMOutputAccount
        BY DEF NewVMOutput, AccountOf
    <2>2. CopyOf(out).accounts[a] = IF a \notin Known(out) THEN NewVMOutput.accounts[a]
                ELSE MergeOutputAccounts(AccountOf(NewVMOutput, a), out.accounts[a])
        BY DEF CopyOf, MergeVMOutputs
    <2>3. CASE a \in Known(out)
        <3>1. out.accounts[a] \in Account
            BY <1>2, <2>3 DEF Known
        <3> QED BY <2>1, <2>2, <2>3, <3>1, CopyAccount
    <2>4. CASE a \notin Known(out)
        BY <2>1, <2>2, <2>4 DEF Known
    <2> QED BY <2>3, <2>4
<1>4. CopyOf(out).accounts = out.accounts
    <2>1. CopyOf(out).accounts \in [Address -> Account \cup {NoAccount}]
        BY <1>1 DEF VMOutput, Accounts
    <2> QED BY <1>2, <1>3, <2>1
<1>5. CopyOf(out).logs = out.logs /\ CopyOf(out).refund = out.refund
    BY <1>2 DEF CopyOf, MergeVMOutputs, NewVMOutput
<1> QED BY <1>1, <1>4, <1>5 DEF Saves

-----------------------------------------------------------------------------
(* What the API functions do to the contexts *)

\* The types of what the running contract, or a callee that begins, works on.
LEMMA ActiveTypes ==
    ASSUME FramesInv, phase # "idle"
    PROVE  /\ output \in VMOutput /\ metering \in Metering /\ codeUpdates \in SUBSET Address
           /\ runtime \in Execution /\ runtime \in Runtime
           /\ runtime.scAddress \in Address /\ runtime.caller \in Address
           /\ runtime.callValue \in Nat /\ runtime.gasProvided \in Uint
           /\ runtime.code \in Code \cup {NoCode}
           /\ address \in Address /\ bigInt \in Nat /\ journal \in Nat
           /\ err \in Errors /\ status \in {0, 1} /\ result \in Result
           /\ wasm \in Instances /\ OnlyPoints(wasm, wasm, instance)
           /\ instance \in InstanceIds
<1>1. TypeOK /\ ActiveInv
    BY DEF FramesInv, HostInv
<1>2. runtime \in Execution /\ address \in Address
    BY <1>1 DEF ActiveInv
<1>3. /\ runtime \in Runtime /\ runtime.scAddress \in Address /\ runtime.caller \in Address
      /\ runtime.callValue \in Nat /\ runtime.gasProvided \in Uint
      /\ runtime.code \in Code \cup {NoCode}
    BY <1>2 DEF Execution, Runtime
<1>4. wasm \in Instances /\ instance \in InstanceIds
    BY <1>1, InstanceTypes
<1>5. OnlyPoints(wasm, wasm, instance)
    BY <1>4 DEF OnlyPoints
<1> QED BY <1>1, <1>2, <1>3, <1>4, <1>5 DEF TypeOK

\* Gas left and gas bounded by it are words.
LEMMA GasLeftType ==
    ASSUME NEW m \in Metering, NEW points \in Uint
    PROVE  GasLeft(m, points) \in Uint
    BY WordTypes DEF GasLeft, Metering

\* The running contract has an instance, on which its API functions are charged.
LEMMA RunningTypes ==
    ASSUME FramesInv, phase = "running"
    PROVE  /\ instance \in InstanceIds \ {0}
           /\ Charged \in Instances /\ OnlyPoints(wasm, Charged, instance)
<1>1. instance \in InstanceIds /\ wasm \in Instances
    BY ActiveTypes
<1>2. instance # 0
    BY DEF FramesInv, HostInv, InstancesInv, Owned
<1>3. HookCost \in Uint
    BY VMHostAssumption
<1>4. OnlyPoints(wasm, Charged, instance)
    BY <1>1, <1>2, <1>3, UseGasPoints DEF Charged
<1> QED BY <1>1, <1>2, <1>4 DEF OnlyPoints

\* The points used by an instance.
LEMMA UsedType ==
    ASSUME NEW w \in Instances, NEW id \in InstanceIds \ {0}
    PROVE  w[id].used \in Uint
<1>1. w[id] \in Instance
    BY DEF Instances
<1> QED BY <1>1, PointsAreWords DEF Instance

\* More gas is used on the instance of the running contract.
LEMMA UseMoreGas ==
    ASSUME FramesInv, phase = "running", NEW w, OnlyPoints(wasm, w, instance), NEW gas \in Uint
    PROVE  UseGas(w, instance, gas) \in Instances /\ OnlyPoints(wasm, UseGas(w, instance, gas), instance)
<1>1. w \in Instances
    BY DEF OnlyPoints
<1>2. OnlyPoints(w, UseGas(w, instance, gas), instance)
    BY <1>1, RunningTypes, UseGasPoints
<1>3. OnlyPoints(wasm, UseGas(w, instance, gas), instance)
    BY <1>2, PointsCompose
<1> QED BY <1>3 DEF OnlyPoints

\* SetReturnCode.
LEMMA ReturnCodeType ==
    ASSUME NEW out \in VMOutput, NEW code \in ReturnCodes
    PROVE  [out EXCEPT !.returnCode = code] \in VMOutput
    BY DEF VMOutput

\* FailExecution.
LEMMA FaultFrames ==
    ASSUME FramesInv, phase = "running", NEW out \in VMOutput, NEW w,
           OnlyPoints(wasm, w, instance), Fault(out, metering, w, instance), journal' \in Nat,
           UNCHANGED <<calls, before, result, outputStack, codeUpdates, meteringVars,
                       runtimeVars, storageVars, bigIntVars, snapshots>>
    PROVE  KeepsFrames
<1>1. w \in Instances /\ w[instance].used \in Uint
    BY RunningTypes, UsedType DEF OnlyPoints
<1>2. GasLeft(metering, w[instance].used) \in Uint
    BY <1>1, ActiveTypes, GasLeftType
<1>3. OnlyPoints(wasm, wasm', instance)
    BY <1>2, UseMoreGas DEF Fault
<1>4. output' \in VMOutput
    BY ReturnCodeType DEF Fault, ReturnCodes
<1>5. phase' \in {"running", "finish"} /\ err' \in Errors /\ status' \in {0, 1}
    BY DEF Fault, Errors
<1>6. /\ metering' \in Metering /\ codeUpdates' \in SUBSET Address /\ bigInt' \in Nat
    BY ActiveTypes DEF meteringVars, bigIntVars
<1>7. UNCHANGED <<frameVars, instance, result>>
    BY DEF frameVars, meteringVars, runtimeVars, storageVars, bigIntVars
<1> QED BY <1>3, <1>4, <1>5, <1>6, <1>7, QuietFrames

\* An API function returns to the contract.
LEMMA HookFrames ==
    ASSUME FramesInv, phase = "running", NEW value \in {0, 1}, HookReturns(value),
           output' \in VMOutput, metering' \in Metering, OnlyPoints(wasm, wasm', instance),
           bigInt' \in Nat, journal' \in Nat,
           UNCHANGED <<outputStack, codeUpdates, meteringStack, runtimeVars, storageVars,
                       bigIntStack, snapshots>>
    PROVE  KeepsFrames
<1>1. /\ phase' \in {"running", "finish"} /\ err' \in Errors /\ status' \in {0, 1}
      /\ codeUpdates' \in SUBSET Address
    BY ActiveTypes DEF HookReturns
<1>2. UNCHANGED <<frameVars, instance, result>>
    BY DEF frameVars, runtimeVars, storageVars, HookReturns
<1> QED BY <1>1, <1>2, QuietFrames

\* The contexts that every call pushes.
LEMMA EnterTypes ==
    ASSUME FramesInv, phase = "running", NEW frame, NEW input \in Execution, NEW r \in Execution,
           NEW out \in VMOutput, NEW calleeOut \in VMOutput, NEW m, NEW w,
           EnterCallee(frame, input, r, out, calleeOut, m, w)
    PROVE  /\ output' \in VMOutput /\ runtime' \in Execution /\ metering' \in Metering
           /\ phase' \in {"execute", "finish"} /\ err' \in Errors
<1>1. /\ input.scAddress \in Address /\ input.caller \in Address /\ input.callValue \in Nat
      /\ input.gasProvided \in Uint /\ r.readOnly \in BOOLEAN
    BY DEF Execution, Runtime
<1>2. MoveValue(calleeOut, input.scAddress, input.caller, input.callValue) \in VMOutput
    BY <1>1, MoveValueType
<1>3. output' \in VMOutput
    BY <1>2 DEF EnterCallee
<1>4. [input EXCEPT !.readOnly = r.readOnly] \in Execution
    BY <1>1 DEF Execution, Runtime
<1>5. runtime' \in Execution
    BY <1>4 DEF EnterCallee
<1>6. metering' \in Metering
    BY <1>1, MeteringFromInputType DEF EnterCallee
<1>7. phase' \in {"execute", "finish"} /\ err' \in Errors
    BY DEF EnterCallee, Errors
<1> QED BY <1>3, <1>5, <1>6, <1>7

\* ExecuteOnDestContext.
LEMMA DestFrames ==
    ASSUME FramesInv, phase = "running", NEW frame \in CallFrame, frame.kind = "dest",
           NEW input \in Execution, NEW out \in VMOutput, NEW m \in Metering,
           NEW w, OnlyPoints(wasm, w, instance),
           ExecuteOnDestContext(frame, input, out, m, w),
           codeUpdates' \in SUBSET Address, journal' \in Nat
    PROVE  KeepsFrames
<1>1. runtime \in Execution
    BY ActiveTypes
<1>2. SameCall(runtime, runtime)
    BY DEF SameCall
<1>3. CensorVMOutput(out) \in VMOutput
    BY CensorType
<1>4. EnterCallee(frame, input, runtime, out, CensorVMOutput(out), m, w)
    BY DEF ExecuteOnDestContext
<1>5. /\ output' \in VMOutput /\ runtime' \in Execution /\ metering' \in Metering
      /\ phase' \in {"execute", "finish"} /\ err' \in Errors
    BY <1>1, <1>3, <1>4, EnterTypes
<1>6. CopyOf(out) \in VMOutput /\ Saves(CopyOf(out), out)
    BY CopyOfSaves
<1>7. /\ calls' = Append(calls, frame) /\ before' = Append(before, Contexts(out, m, w))
      /\ outputStack' = Append(outputStack, CopyOf(out))
      /\ meteringStack' = Append(meteringStack, m)
      /\ runtimeStack' = Append(runtimeStack, runtime)
      /\ instanceStack' = Append(instanceStack, instance)
      /\ bigIntStack' = Append(bigIntStack, bigInt)
      /\ snapshots' = Append(snapshots, journal)
      /\ wasm' = w /\ UNCHANGED <<instance, result, status>>
    BY <1>4 DEF EnterCallee
<1>8. bigInt' \in Nat /\ addressStack' = Append(addressStack, address) /\ address' \in Address
    <2>1. input.scAddress \in Address
        BY DEF Execution
    <2> QED BY <2>1 DEF ExecuteOnDestContext
<1>9. IF frame.kind = "dest"
      THEN addressStack' = Append(addressStack, address) /\ address' \in Address
      ELSE UNCHANGED <<address, addressStack>>
    BY <1>8
<1>10. frame.kind \in {"dest", "same"}
    OBVIOUS
<1> QED BY <1>1, <1>2, <1>5, <1>6, <1>7, <1>8, <1>9, <1>10, PushFrames

\* ExecuteOnSameContext.
LEMMA SameFrames ==
    ASSUME FramesInv, phase = "running", NEW frame \in CallFrame, frame.kind = "same",
           NEW input \in Execution, NEW r \in Execution, SameCall(runtime, r),
           NEW w, OnlyPoints(wasm, w, instance),
           ExecuteOnSameContext(frame, input, r, w)
    PROVE  KeepsFrames
<1>1. output \in VMOutput /\ metering \in Metering
    BY ActiveTypes
<1>4. EnterCallee(frame, input, r, output, output, metering, w)
    BY DEF ExecuteOnSameContext
<1>5. /\ output' \in VMOutput /\ runtime' \in Execution /\ metering' \in Metering
      /\ phase' \in {"execute", "finish"} /\ err' \in Errors
    BY <1>1, <1>4, EnterTypes
<1>6. CopyOf(output) \in VMOutput /\ Saves(CopyOf(output), output)
    BY <1>1, CopyOfSaves
<1>7. /\ calls' = Append(calls, frame) /\ before' = Append(before, Contexts(output, metering, w))
      /\ outputStack' = Append(outputStack, CopyOf(output))
      /\ meteringStack' = Append(meteringStack, metering)
      /\ runtimeStack' = Append(runtimeStack, r)
      /\ instanceStack' = Append(instanceStack, instance)
      /\ bigIntStack' = Append(bigIntStack, bigInt)
      /\ snapshots' = Append(snapshots, journal)
      /\ wasm' = w /\ UNCHANGED <<instance, result, status>>
    BY <1>4 DEF EnterCallee
<1>8. bigInt' \in Nat /\ codeUpdates' \in SUBSET Address /\ journal' \in Nat
    BY ActiveTypes DEF ExecuteOnSameContext
<1>9. IF frame.kind = "dest"
      THEN addressStack' = Append(addressStack, address) /\ address' \in Address
      ELSE UNCHANGED <<address, addressStack>>
    BY DEF ExecuteOnSameContext, storageVars
<1>10. frame.kind \in {"dest", "same"}
    OBVIOUS
<1> QED BY <1>1, <1>5, <1>6, <1>7, <1>8, <1>9, <1>10, PushFrames

\* A function, and the code that an upgrade comes with.
IsInvocation(function, code) ==
    /\ function \in FunctionNames /\ code \in Code \cup {NoCode}
    /\ function = "upgradeContract" => code \in Code

\* The functions that contracts name.
LEMMA InvocationType ==
    ASSUME NEW f \in Invocations PROVE IsInvocation(f[1], f[2])
    BY VMHostAssumption DEF Invocations, IsInvocation

\* The gas that a contract can give to a callee.
LEMMA IndirectGasType ==
    ASSUME FramesInv, phase = "running", NEW limit \in Uint
    PROVE  BoundGasLimit(metering, Charged[instance].used, limit) \in Uint
<1>1. Charged[instance].used \in Uint
    BY RunningTypes, UsedType
<1>2. GasLeft(metering, Charged[instance].used) \in Uint
    BY <1>1, ActiveTypes, GasLeftType
<1> QED BY <1>2 DEF BoundGasLimit

\* The input of a callee.
LEMMA InputType ==
    ASSUME NEW dest \in Address, NEW sender \in Address, NEW value \in Nat, NEW gas \in Uint,
           NEW function \in ContractFunctions, NEW code, IsInvocation(function, code)
    PROVE  Input(dest, sender, value, gas, function, code) \in Execution
    BY DEF Input, Execution, Runtime, IsInvocation

\* prepareIndirectContractCallInput.
LEMMA IndirectType ==
    ASSUME FramesInv, phase = "running",
           NEW sender \in Address, NEW dest \in Address, NEW value \in Nat, NEW limit \in Uint,
           NEW function \in ContractFunctions, NEW code, IsInvocation(function, code)
    PROVE  IndirectInput(sender, dest, value, limit, function, code) \in Execution
<1>1. BoundGasLimit(metering, Charged[instance].used, limit) \in Uint
    BY IndirectGasType
<1> QED BY <1>1, InputType DEF IndirectInput

\* A call with part of the gas.
LEMMA LessGasType ==
    ASSUME NEW input \in Execution, NEW gas \in Uint
    PROVE  [input EXCEPT !.gasProvided = gas] \in Execution
    BY DEF Execution, Runtime

\* The frames of the calls that create no contract.
LEMMA FrameType ==
    ASSUME NEW kind \in {"dest", "same"}, NEW hook \in HookNames \ {"createContract"}
    PROVE  Frame(kind, hook) \in CallFrame /\ Frame(kind, hook).kind = kind
    BY DEF Frame, Call, CallFrame

-----------------------------------------------------------------------------
(* The actions of the host *)

\* executeOnDestContext and the functions like it.
LEMMA CallHookFrames ==
    ASSUME FramesInv, NEW dest \in Address, NEW value \in Nat, NEW limit \in Uint,
           NEW function, NEW code, IsInvocation(function, code),
           \/ ExecuteOnDestContextHook(dest, value, limit, function, code)
           \/ ExecuteOnDestContextByCallerHook(dest, value, limit, function, code)
           \/ ExecuteOnSameContextHook(dest, value, limit, function, code)
           \/ DelegateExecutionHook(dest, limit, function, code)
           \/ ExecuteReadOnlyHook(dest, limit, function, code)
    PROVE  KeepsFrames
<1> DEFINE input(sender, v) == IndirectInput(sender, dest, v, limit, function, code)
<1>1. phase = "running" /\ function \in ContractFunctions
    BY DEF ExecuteOnDestContextHook, ExecuteOnDestContextByCallerHook,
        ExecuteOnSameContextHook, DelegateExecutionHook, ExecuteReadOnlyHook, Running
<1>2. /\ output \in VMOutput /\ metering \in Metering /\ runtime \in Execution
      /\ runtime.scAddress \in Address /\ runtime.caller \in Address
      /\ runtime.callValue \in Nat
      /\ codeUpdates \in SUBSET Address /\ journal \in Nat
    BY <1>1, ActiveTypes
<1>3. OnlyPoints(wasm, Charged, instance)
    BY <1>1, RunningTypes
<1>4. /\ input(runtime.scAddress, value) \in Execution
      /\ input(runtime.caller, value) \in Execution
      /\ input(runtime.scAddress, runtime.callValue) \in Execution
    BY <1>1, <1>2, IndirectType
<1> HIDE DEF input
<1>5. CASE ExecuteOnDestContextHook(dest, value, limit, function, code)
    <2> DEFINE frame == Frame("dest", "executeOnDestContext")
    <2>1. frame \in CallFrame /\ frame.kind = "dest"
        BY FrameType DEF HookNames
    <2>2. /\ ExecuteOnDestContext(frame, input(runtime.scAddress, value), output, metering, Charged)
          /\ codeUpdates' = codeUpdates /\ journal' = journal
        BY <1>5 DEF ExecuteOnDestContextHook, input
    <2> HIDE DEF frame
    <2> QED BY <1>1, <1>2, <1>3, <1>4, <2>1, <2>2, DestFrames
<1>6. CASE ExecuteOnDestContextByCallerHook(dest, value, limit, function, code)
    <2> DEFINE frame == Frame("dest", "executeOnDestContextByCaller")
    <2>1. frame \in CallFrame /\ frame.kind = "dest"
        BY FrameType DEF HookNames
    <2>2. /\ ExecuteOnDestContext(frame, input(runtime.caller, value), output, metering, Charged)
          /\ codeUpdates' = codeUpdates /\ journal' = journal
        BY <1>6 DEF ExecuteOnDestContextByCallerHook, input
    <2> HIDE DEF frame
    <2> QED BY <1>1, <1>2, <1>3, <1>4, <2>1, <2>2, DestFrames
<1>7. SameCall(runtime, runtime)
    BY DEF SameCall
<1>8. CASE ExecuteOnSameContextHook(dest, value, limit, function, code)
    <2> DEFINE frame == Frame("same", "executeOnSameContext")
    <2>1. frame \in CallFrame /\ frame.kind = "same"
        BY FrameType DEF HookNames
    <2>2. ExecuteOnSameContext(frame, input(runtime.scAddress, value), runtime, Charged)
        BY <1>8 DEF ExecuteOnSameContextHook, input
    <2> HIDE DEF frame
    <2> QED BY <1>1, <1>2, <1>3, <1>4, <1>7, <2>1, <2>2, SameFrames
<1>9. CASE DelegateExecutionHook(dest, limit, function, code)
    <2> DEFINE frame == Frame("same", "delegateExecution")
    <2>1. frame \in CallFrame /\ frame.kind = "same"
        BY FrameType DEF HookNames
    <2>2. ExecuteOnSameContext(frame, input(runtime.scAddress, runtime.callValue), runtime, Charged)
        BY <1>9 DEF DelegateExecutionHook, input
    <2> HIDE DEF frame
    <2> QED BY <1>1, <1>2, <1>3, <1>4, <1>7, <2>1, <2>2, SameFrames
<1>10. CASE ExecuteReadOnlyHook(dest, limit, function, code)
    <2> DEFINE frame == Frame("same", "executeReadOnly")
               r == [runtime EXCEPT !.readOnly = TRUE]
    <2>1. frame \in CallFrame /\ frame.kind = "same"
        BY FrameType DEF HookNames
    <2>2. ExecuteOnSameContext(frame, input(runtime.scAddress, runtime.callValue), r, Charged)
        BY <1>10 DEF ExecuteReadOnlyHook, input
    <2>3. r \in Execution /\ SameCall(runtime, r)
        BY <1>2 DEF Execution, Runtime, SameCall
    <2> HIDE DEF frame, r
    <2> QED BY <1>1, <1>2, <1>3, <1>4, <2>1, <2>2, <2>3, SameFrames
<1> QED BY <1>5, <1>6, <1>8, <1>9, <1>10

\* The API functions that refuse their arguments.
LEMMA RefusedFrames ==
    ASSUME FramesInv, NEW hook, NEW dest,
           \/ BadArguments(hook)
           \/ SyncCallToOtherShard(hook, dest)
           \/ RefuseBuiltinFunction(hook)
    PROVE  KeepsFrames
<1>1. phase = "running"
    BY DEF BadArguments, SyncCallToOtherShard, RefuseBuiltinFunction, Running
<1>2. /\ output \in VMOutput /\ metering \in Metering /\ journal \in Nat /\ bigInt \in Nat
      /\ OnlyPoints(wasm, Charged, instance)
    BY <1>1, ActiveTypes, RunningTypes
<1>3. CASE BadArguments(hook) \/ SyncCallToOtherShard(hook, dest)
    <2>1. /\ Fault(output, metering, Charged, instance)
          /\ UNCHANGED <<calls, before, result, outputStack, codeUpdates, meteringVars,
                         runtimeVars, storageVars, bigIntVars, blockchainVars>>
        BY <1>3 DEF BadArguments, SyncCallToOtherShard
    <2>2. journal' \in Nat /\ UNCHANGED snapshots
        BY <1>2, <2>1 DEF blockchainVars
    <2> QED BY <1>1, <1>2, <2>1, <2>2, FaultFrames
<1>4. CASE RefuseBuiltinFunction(hook)
    <2>1. /\ wasm' = Charged /\ HookReturns(1)
          /\ UNCHANGED <<output, outputStack, codeUpdates, metering, meteringStack,
                         runtimeVars, storageVars, bigInt, bigIntStack, journal, snapshots>>
        BY <1>4 DEF RefuseBuiltinFunction, outputVars, meteringVars, bigIntVars, blockchainVars
    <2> QED BY <1>1, <1>2, <2>1, HookFrames
<1> QED BY <1>3, <1>4

\* The built-in functions of the protocol.
LEMMA BuiltinFrames ==
    ASSUME FramesInv, NEW dest \in Address, NEW limit \in Uint,
           \/ BuiltinFunctionFails(dest, limit)
           \/ BuiltinFunctionDone(dest, limit)
           \/ BuiltinFunctionRefused(dest, limit)
           \/ BuiltinFunctionThenCall(dest, limit)
    PROVE  KeepsFrames
<1> DEFINE input == IndirectInput(runtime.scAddress, dest, 0, limit, "call", NoCode)
           added == AddToActiveState(output, BuiltinOutput(dest))
           used == UseGas(Charged, instance, BuiltinCost)
<1>1. phase = "running"
    BY DEF BuiltinFunctionFails, BuiltinFunctionDone, BuiltinFunctionRefused,
           BuiltinFunctionThenCall, Running
<1>2. /\ output \in VMOutput /\ metering \in Metering /\ journal \in Nat /\ bigInt \in Nat
      /\ runtime.scAddress \in Address /\ codeUpdates \in SUBSET Address
      /\ OnlyPoints(wasm, Charged, instance) /\ BuiltinCost \in Uint
    BY <1>1, ActiveTypes, RunningTypes, VMHostAssumption
<1>3. input \in Execution /\ input.gasProvided \in Uint
    <2>1. IsInvocation("call", NoCode) /\ "call" \in ContractFunctions
        BY DEF IsInvocation, FunctionNames, ContractFunctions
    <2>2. input \in Execution
        BY <1>1, <1>2, <2>1, IndirectType
    <2> QED BY <2>2 DEF Execution, Runtime
<1>4. added \in VMOutput
    BY <1>2, BuiltinOutputType, AddToActiveType
<1>5. OnlyPoints(wasm, used, instance)
    BY <1>1, <1>2, UseMoreGas
<1> HIDE DEF input, added, used
<1>6. CASE BuiltinFunctionFails(dest, limit)
    <2> DEFINE account == AccountOf(output, runtime.scAddress)
               failed == WithAccount(output, runtime.scAddress,
                    [account EXCEPT !.gasUsed = AddUint64(@, metering.initialGasProvided)])
               w == UseGas(Charged, instance, input.gasProvided)
    <2>1. failed \in VMOutput
        <3>1. account \in Account /\ metering.initialGasProvided \in Uint
            BY <1>2, AccountOfType DEF Metering
        <3> HIDE DEF account
        <3>2. [account EXCEPT !.gasUsed = AddUint64(@, metering.initialGasProvided)] \in Account
            BY <3>1, GasUsedType
        <3> QED BY <1>2, <3>2, WithAccountType
    <2>2. OnlyPoints(wasm, w, instance)
        BY <1>1, <1>2, <1>3, UseMoreGas
    <2>3. /\ Fault(failed, metering, w, instance)
          /\ UNCHANGED <<calls, before, result, outputStack, codeUpdates, meteringVars,
                         runtimeVars, storageVars, bigIntVars, blockchainVars>>
        BY <1>6 DEF BuiltinFunctionFails, input
    <2>4. journal' \in Nat /\ UNCHANGED snapshots
        BY <1>2, <2>3 DEF blockchainVars
    <2> HIDE DEF failed, w
    <2> QED BY <1>1, <2>1, <2>2, <2>3, <2>4, FaultFrames
<1>7. CASE BuiltinFunctionDone(dest, limit)
    <2>1. /\ output' = added /\ wasm' = used /\ journal' = journal + 1 /\ HookReturns(0)
          /\ UNCHANGED <<outputStack, codeUpdates, metering, meteringStack, runtimeVars,
                         storageVars, bigInt, bigIntStack, snapshots>>
        BY <1>7 DEF BuiltinFunctionDone, added, used, meteringVars, bigIntVars
    <2>2. journal' \in Nat
        BY <1>2, <2>1
    <2> QED BY <1>1, <1>2, <1>4, <1>5, <2>1, <2>2, HookFrames
<1>8. CASE BuiltinFunctionThenCall(dest, limit)
    <2> DEFINE frame == Frame("dest", "executeOnDestContext")
               rest == [input EXCEPT !.gasProvided = input.gasProvided - BuiltinCost]
    <2>1. frame \in CallFrame /\ frame.kind = "dest"
        BY FrameType DEF HookNames
    <2>2. /\ ExecuteOnDestContext(frame, rest, added, metering, used)
          /\ journal' = journal + 1 /\ UNCHANGED codeUpdates
          /\ input.gasProvided >= BuiltinCost
        BY <1>8 DEF BuiltinFunctionThenCall, added, used, input
    <2>3. input.gasProvided - BuiltinCost \in Uint
        BY <1>2, <1>3, <2>2, MaxUintAssumption DEF Uint
    <2>4. rest \in Execution
        BY <1>3, <2>3, LessGasType
    <2>5. journal' \in Nat /\ codeUpdates' \in SUBSET Address
        BY <1>2, <2>2
    <2> HIDE DEF frame, rest
    <2> QED BY <1>1, <1>2, <1>4, <1>5, <2>1, <2>2, <2>4, <2>5, DestFrames
<1>9. CASE BuiltinFunctionRefused(dest, limit)
    <2> DEFINE refused == AddToActiveState(output, RefusedOutput)
    <2>1. refused \in VMOutput
        BY <1>2, RefusedOutputType, AddToActiveType
    <2>2. /\ output' = refused /\ wasm' = used /\ HookReturns(0)
          /\ UNCHANGED <<outputStack, codeUpdates, metering, meteringStack, runtimeVars,
                         storageVars, bigInt, bigIntStack, journal, snapshots>>
        BY <1>9 DEF BuiltinFunctionRefused, used, meteringVars, bigIntVars, blockchainVars
    <2> HIDE DEF refused
    <2> QED BY <1>1, <1>2, <1>5, <2>1, <2>2, HookFrames
<1> QED BY <1>6, <1>7, <1>8, <1>9

\* output.Transfer.
LEMMA TransferFrames ==
    ASSUME FramesInv, phase = "running", NEW dest \in Address, NEW value \in Nat, NEW gas \in Uint,
           Transfer(dest, value, gas)
    PROVE  KeepsFrames
<1>1. /\ output \in VMOutput /\ metering \in Metering /\ journal \in Nat /\ bigInt \in Nat
      /\ runtime.scAddress \in Address /\ OnlyPoints(wasm, Charged, instance)
    BY ActiveTypes, RunningTypes
<1>2. UNCHANGED <<outputStack, codeUpdates, meteringVars, runtimeVars,
                  storageVars, bigIntVars, blockchainVars>>
    BY DEF Transfer
<1>3. UNCHANGED <<metering, meteringStack, bigInt, bigIntStack, journal, snapshots>>
    BY <1>2 DEF meteringVars, bigIntVars, blockchainVars
<1>4. CASE /\ output' = AppendTransfer(MoveValue(output, dest, runtime.scAddress, value), dest, gas)
           /\ wasm' = Charged /\ HookReturns(0)
    <2>1. MoveValue(output, dest, runtime.scAddress, value) \in VMOutput
        BY <1>1, MoveValueType
    <2>2. output' \in VMOutput
        BY <1>4, <2>1, AppendTransferType
    <2> QED BY <1>1, <1>2, <1>3, <1>4, <2>2, HookFrames
<1>5. CASE Fault(output, metering, Charged, instance) /\ UNCHANGED <<calls, before, result>>
    <2>1. journal' \in Nat
        BY <1>1, <1>3
    <2> QED BY <1>1, <1>2, <1>3, <1>5, <2>1, FaultFrames
<1> QED BY <1>4, <1>5 DEF Transfer

\* transferValue and transferValueExecute.
LEMMA TransferHookFrames ==
    ASSUME FramesInv, NEW dest \in Address, NEW value \in Nat, NEW limit \in Uint,
           NEW function, NEW code, IsInvocation(function, code),
           \/ TransferValueHook(dest, value)
           \/ TransferValueExecuteHook(dest, value, limit, function, code)
    PROVE  KeepsFrames
<1> DEFINE input == IndirectInput(runtime.scAddress, dest, value, limit, function, code)
           frame == Frame("dest", "transferValueExecute")
<1>1. phase = "running" /\ 0 \in Uint
    BY ZeroIsWord DEF TransferValueHook, TransferValueExecuteHook, Running
<1>2. CASE TransferValueHook(dest, value)
    BY <1>1, <1>2, TransferFrames DEF TransferValueHook
<1>3. CASE Transfer(dest, value, limit)
    BY <1>1, <1>3, TransferFrames
<1>4. CASE /\ function # "builtin" /\ function # "none"
           /\ ExecuteOnDestContext(frame, input, output, metering, Charged)
           /\ UNCHANGED <<codeUpdates, journal>>
    <2>1. frame \in CallFrame /\ frame.kind = "dest"
        BY FrameType DEF HookNames
    <2>2. /\ output \in VMOutput /\ metering \in Metering /\ journal' \in Nat
          /\ codeUpdates' \in SUBSET Address
          /\ runtime.scAddress \in Address /\ OnlyPoints(wasm, Charged, instance)
        BY <1>1, <1>4, ActiveTypes, RunningTypes
    <2>3. function \in ContractFunctions
        BY <1>4 DEF IsInvocation, FunctionNames
    <2>4. input \in Execution
        BY <1>1, <2>2, <2>3, IndirectType
    <2> HIDE DEF frame, input
    <2> QED BY <1>1, <1>4, <2>1, <2>2, <2>4, DestFrames
<1> QED BY <1>2, <1>3, <1>4 DEF TransferValueExecuteHook

\* transferESDTExecute.
LEMMA ESDTHookFrames ==
    ASSUME FramesInv, NEW dest \in Address, NEW limit \in Uint,
           NEW function, NEW code, IsInvocation(function, code),
           \/ TransferESDTFails(dest, limit, function, code)
           \/ TransferESDTExecuteHook(dest, limit, function, code)
    PROVE  KeepsFrames
<1> DEFINE input == IndirectInput(runtime.scAddress, dest, 0, limit, function, code)
           execution == ESDTExecution(dest, function)
           gas == IF execution THEN input.gasProvided - BuiltinCost ELSE 0
           transferred == UseGas(Charged, instance, BuiltinCost)
           sentAway == IF dest \in LocalAddress THEN 0 ELSE gas
           sent == AppendTransfer(output, dest, sentAway)
           out == [sent EXCEPT !.logs = @ + 1]
<1>1. phase = "running"
    BY DEF TransferESDTFails, TransferESDTExecuteHook, Running
<1>2. /\ output \in VMOutput /\ metering \in Metering /\ journal \in Nat /\ bigInt \in Nat
      /\ runtime.scAddress \in Address /\ codeUpdates \in SUBSET Address
      /\ OnlyPoints(wasm, Charged, instance) /\ BuiltinCost \in Uint
    BY <1>1, ActiveTypes, RunningTypes, VMHostAssumption
<1>3. CASE TransferESDTFails(dest, limit, function, code)
    <2>1. journal' \in Nat
        <3>1. journal' = journal \/ journal' = journal + 1
            BY <1>3 DEF TransferESDTFails
        <3> QED BY <1>2, <3>1
    <2>2. /\ Fault(output, metering, Charged, instance)
          /\ UNCHANGED <<calls, before, result, outputStack, codeUpdates, meteringVars,
                         runtimeVars, storageVars, bigIntVars, snapshots>>
        BY <1>3 DEF TransferESDTFails
    <2> QED BY <1>1, <1>2, <2>1, <2>2, FaultFrames
<1>4. CASE TransferESDTExecuteHook(dest, limit, function, code)
    <2>1. input.gasProvided \in Uint
        BY <1>1, IndirectGasType DEF IndirectInput, Input
    <2>2. CanTransferESDT(input, execution) /\ function # "builtin" /\ journal' = journal + 1
        BY <1>4 DEF TransferESDTExecuteHook
    <2>3. gas \in Uint
        <3>1. CASE execution
            <4>1. BuiltinCost <= input.gasProvided
                BY <2>2, <3>1 DEF CanTransferESDT
            <4>2. input.gasProvided - BuiltinCost \in Uint
                <5> HIDE DEF input
                <5> QED BY <1>2, <2>1, <4>1, MaxUintAssumption DEF Uint
            <4> QED BY <3>1, <4>2
        <3>2. CASE ~execution
            BY <3>2, ZeroIsWord
        <3> QED BY <3>1, <3>2
    <2>4. sentAway \in Uint
        BY <2>3, ZeroIsWord
    <2> HIDE DEF gas, sentAway
    <2>5. sent \in VMOutput
        BY <1>2, <2>4, AppendTransferType
    <2> HIDE DEF sent
    <2>6. out \in VMOutput
        BY <2>5 DEF VMOutput
    <2>7. OnlyPoints(wasm, transferred, instance)
        BY <1>1, <1>2, UseMoreGas
    <2>8. journal' \in Nat
        BY <1>2, <2>2
    <2> HIDE DEF transferred, out
    <2>9. CASE execution /\ dest \in LocalAddress
        <3> DEFINE frame == Frame("dest", "transferESDTExecute")
                   rest == [input EXCEPT !.gasProvided = gas]
        <3>1. frame \in CallFrame /\ frame.kind = "dest"
            BY FrameType DEF HookNames
        <3>2. function \in ContractFunctions
            BY <2>2, <2>9 DEF ESDTExecution, IsInvocation, FunctionNames
        <3>3. input \in Execution
            BY <1>1, <1>2, <3>2, IndirectType
        <3>4. ExecuteOnDestContext(frame, rest, out, metering, transferred) /\ UNCHANGED codeUpdates
            BY <1>4, <2>9 DEF TransferESDTExecuteHook, out, sent, sentAway, gas, transferred
        <3> HIDE DEF input, frame
        <3>5. rest \in Execution
            BY <2>3, <3>3, LessGasType
        <3>6. codeUpdates' \in SUBSET Address
            BY <1>2, <3>4
        <3> HIDE DEF rest
        <3> QED BY <1>1, <1>2, <2>6, <2>7, <2>8, <3>1, <3>4, <3>5, <3>6, DestFrames
    <2>10. CASE ~(execution /\ dest \in LocalAddress)
        <3>1. /\ output' = out /\ wasm' = UseGas(transferred, instance, sentAway) /\ HookReturns(0)
              /\ UNCHANGED <<outputStack, codeUpdates, metering, meteringStack, runtimeVars,
                             storageVars, bigInt, bigIntStack, snapshots>>
            BY <1>4, <2>10 DEF TransferESDTExecuteHook, out, sent, sentAway, gas, transferred,
                meteringVars, bigIntVars
        <3>2. OnlyPoints(wasm, wasm', instance)
            BY <1>1, <2>4, <2>7, <3>1, UseMoreGas
        <3> QED BY <1>1, <1>2, <2>6, <2>8, <3>1, <3>2, HookFrames
    <2> QED BY <2>9, <2>10
<1> QED BY <1>3, <1>4

\* CreateNewContract: the new contract begins, or the creation is refused.
LEMMA CreateFrames ==
    ASSUME FramesInv, phase = "running", NEW out \in VMOutput, NEW code \in Code,
           NEW value \in Nat, NEW limit \in Uint, CreateNewContract(out, code, value, limit)
    PROVE  KeepsFrames
<1> DEFINE sender == runtime.scAddress
           cost == CompileCost[code]
           payable == CanDeductInitialGas(runtime.gasProvided, cost)
           deducted == IF payable THEN DeductInitialGas(metering, runtime.gasProvided, cost)
                       ELSE metering
           newAddress == NewAddressOf[sender, NonceOf(out, sender)]
           input == IndirectInput(sender, newAddress, value, limit, "init", NoCode)
           frame == [kind |-> "dest", hook |-> "createContract", newAddress |-> newAddress]
           installed == SetCode(out, newAddress, code)
<1>1. /\ metering \in Metering /\ journal \in Nat /\ bigInt \in Nat
      /\ runtime.scAddress \in Address /\ runtime.gasProvided \in Uint
      /\ codeUpdates \in SUBSET Address /\ OnlyPoints(wasm, Charged, instance)
    BY ActiveTypes, RunningTypes
<1>2. cost \in Uint
    BY VMHostAssumption
<1>3. deducted \in Metering
    <2>1. CASE payable
        BY <1>1, <1>2, <2>1, DeductType
    <2>2. CASE ~payable
        BY <1>1, <2>2
    <2> QED BY <2>1, <2>2
<1>4. newAddress \in Address
    <2>1. AccountOf(out, sender) \in Account
        BY <1>1, AccountOfType
    <2>2. NonceOf(out, sender) \in Nat
        BY <2>1 DEF NonceOf, Account
    <2>3. NonceOf(out, sender) <= MaxNonce
        BY Zenon DEF CreateNewContract
    <2>4. NonceOf(out, sender) \in 0 .. MaxNonce
        BY <2>2, <2>3, VMHostAssumption
    <2>5. NewAddressOf \in [Address \X (0 .. MaxNonce) -> Address]
        BY VMHostAssumption
    <2> QED BY <1>1, <2>4, <2>5, Zenon
<1>5. input \in Execution
    <2>1. IsInvocation("init", NoCode) /\ "init" \in ContractFunctions
        BY DEF IsInvocation, FunctionNames, ContractFunctions
    <2> HIDE DEF newAddress
    <2> QED BY <1>1, <1>4, <2>1, IndirectType
<1>6. frame \in CallFrame /\ frame.kind = "dest"
    <2> HIDE DEF newAddress
    <2> QED BY <1>4 DEF Call, CallFrame, HookNames
<1>7. installed \in VMOutput
    <2> HIDE DEF newAddress
    <2> QED BY <1>4, SetCodeType
<1>8. CASE /\ ExecuteOnDestContext(frame, input, installed, deducted, Charged)
           /\ codeUpdates' = codeUpdates \cup {newAddress}
           /\ UNCHANGED journal
    <2> HIDE DEF frame, input, installed, deducted, newAddress
    <2>1. codeUpdates' \in SUBSET Address /\ journal' \in Nat
        BY <1>1, <1>4, <1>8
    <2> QED BY <1>1, <1>3, <1>5, <1>6, <1>7, <1>8, <2>1, DestFrames
<1>9. CASE /\ metering' = deducted /\ wasm' = Charged /\ output' = out /\ HookReturns(1)
           /\ UNCHANGED <<outputStack, codeUpdates, meteringStack, runtimeVars,
                          storageVars, bigIntVars, blockchainVars>>
    <2> HIDE DEF deducted
    <2>1. UNCHANGED <<bigInt, bigIntStack, journal, snapshots>>
        BY <1>9 DEF bigIntVars, blockchainVars
    <2> QED BY <1>1, <1>3, <1>9, <2>1, HookFrames
<1> QED BY <1>8, <1>9, Zenon DEF CreateNewContract

\* createContract and deployFromSourceContract.
LEMMA CreateHookFrames ==
    ASSUME FramesInv, NEW value \in Nat, NEW limit \in Uint,
           \/ \E code \in Code : CreateContractHook(code, value, limit)
           \/ \E source \in Address : DeployFromSourceContractHook(source, value, limit)
    PROVE  KeepsFrames
<1>1. phase = "running"
    BY DEF CreateContractHook, DeployFromSourceContractHook, Running
<1>2. /\ output \in VMOutput /\ metering \in Metering /\ journal \in Nat
      /\ OnlyPoints(wasm, Charged, instance)
    BY <1>1, ActiveTypes, RunningTypes
<1>3. ASSUME NEW code \in Code, CreateContractHook(code, value, limit) PROVE KeepsFrames
    BY <1>1, <1>2, <1>3, CreateFrames DEF CreateContractHook
<1>4. ASSUME NEW source \in Address, DeployFromSourceContractHook(source, value, limit)
      PROVE  KeepsFrames
    <2> DEFINE code == GetCode(output, source)
               cached == SetCode(output, source, code)
    <2>1. code \in Code \cup {NoCode}
        BY <1>2, GetCodeType
    <2>2. cached \in VMOutput
        <3> HIDE DEF code
        <3> QED BY <1>2, <2>1, SetCodeType
    <2>3. CASE code # NoCode
        <3>1. CreateNewContract(cached, code, value, limit)
            BY <1>4, <2>3 DEF DeployFromSourceContractHook
        <3>2. code \in Code
            BY <2>1, <2>3
        <3> HIDE DEF code, cached
        <3> QED BY <1>1, <2>2, <3>1, <3>2, CreateFrames
    <2>4. CASE code = NoCode
        <3>1. /\ Fault(cached, metering, Charged, instance)
              /\ UNCHANGED <<calls, before, result, outputStack, codeUpdates, meteringVars,
                             runtimeVars, storageVars, bigIntVars, blockchainVars>>
            BY <1>4, <2>4 DEF DeployFromSourceContractHook
        <3>2. journal' \in Nat /\ UNCHANGED snapshots
            BY <1>2, <3>1 DEF blockchainVars
        <3> HIDE DEF cached
        <3> QED BY <1>1, <1>2, <2>2, <3>1, <3>2, FaultFrames
    <2> QED BY <2>3, <2>4
<1> QED BY <1>3, <1>4

\* The API functions that work on the contexts of the running contract.
LEMMA StoreHookFrames ==
    ASSUME FramesInv, NEW value \in Value, StorageStoreHook(value) PROVE KeepsFrames
<1> DEFINE old == GetStorage(output, address)
           stored == SetCell(output, address, value)
<1>1. phase = "running"
    BY DEF StorageStoreHook, Running
<1>2. /\ output \in VMOutput /\ metering \in Metering /\ journal \in Nat /\ bigInt \in Nat
      /\ address \in Address /\ OnlyPoints(wasm, Charged, instance)
    BY <1>1, ActiveTypes, RunningTypes
<1>3. old \in Value
    <2>1. AccountOf(output, address) \in Account
        BY <1>2, AccountOfType
    <2> QED BY <2>1, OutputAssumption DEF GetStorage, Account
<1>4. stored \in VMOutput
    BY <1>2, SetCellType
<1> HIDE DEF old, stored
<1>5. StorageGas(old, value) \in Uint /\ StorageRefund(old, value) \in Uint
    BY <1>3, StorageGasType
<1>6. /\ HookReturns(0)
      /\ UNCHANGED <<outputStack, codeUpdates, metering, meteringStack, runtimeVars,
                     storageVars, bigInt, bigIntStack, journal, snapshots>>
    BY DEF StorageStoreHook, meteringVars, bigIntVars, blockchainVars
<1>7. output' \in VMOutput /\ OnlyPoints(wasm, wasm', instance)
    <2>1. CASE runtime.readOnly
        BY <1>2, <2>1 DEF StorageStoreHook
    <2>2. CASE ~runtime.readOnly
        <3>1. /\ wasm' = UseGas(Charged, instance, StorageGas(old, value))
              /\ output' = [stored EXCEPT !.refund = AddUint64(@, StorageRefund(old, value))]
            BY <2>2 DEF StorageStoreHook, old, stored
        <3>2. AddUint64(stored.refund, StorageRefund(old, value)) \in Uint
            BY <1>4, <1>5, WordTypes DEF VMOutput
        <3>3. output' \in VMOutput
            BY <1>4, <3>1, <3>2 DEF VMOutput
        <3>4. OnlyPoints(wasm, wasm', instance)
            BY <1>1, <1>2, <1>5, <3>1, UseMoreGas
        <3> QED BY <3>3, <3>4
    <2> QED BY <2>1, <2>2
<1> QED BY <1>1, <1>2, <1>6, <1>7, HookFrames

\* writeLog, bigIntNew and signalError.
LEMMA LocalHookFrames ==
    ASSUME FramesInv, WriteLogHook \/ BigIntNewHook \/ SignalErrorHook PROVE KeepsFrames
<1>1. phase = "running"
    BY DEF WriteLogHook, BigIntNewHook, SignalErrorHook, Running
<1>2. /\ output \in VMOutput /\ metering \in Metering /\ journal \in Nat /\ bigInt \in Nat
      /\ codeUpdates \in SUBSET Address /\ status \in {0, 1}
      /\ address \in Address /\ OnlyPoints(wasm, Charged, instance)
    BY <1>1, ActiveTypes, RunningTypes
<1>3. CASE WriteLogHook
    <2>1. [output EXCEPT !.logs = @ + 1] \in VMOutput
        BY <1>2 DEF VMOutput
    <2>2. output' \in VMOutput
        BY <1>2, <1>3, <2>1 DEF WriteLogHook, WriteLog
    <2>3. /\ wasm' = Charged /\ HookReturns(0)
          /\ UNCHANGED <<outputStack, codeUpdates, metering, meteringStack, runtimeVars,
                         storageVars, bigInt, bigIntStack, journal, snapshots>>
        BY <1>3 DEF WriteLogHook, meteringVars, bigIntVars, blockchainVars
    <2> QED BY <1>1, <1>2, <2>2, <2>3, HookFrames
<1>4. CASE BigIntNewHook
    <2>1. /\ wasm' = Charged /\ HookReturns(0) /\ bigInt' = bigInt + 1
          /\ UNCHANGED <<output, outputStack, codeUpdates, metering, meteringStack, runtimeVars,
                         storageVars, bigIntStack, journal, snapshots>>
        BY <1>4 DEF BigIntNewHook, outputVars, meteringVars, blockchainVars
    <2>2. bigInt' \in Nat
        BY <1>2, <2>1
    <2> QED BY <1>1, <1>2, <2>1, <2>2, HookFrames
<1>5. CASE SignalErrorHook
    <2>1. output' \in VMOutput
        BY <1>2, <1>5, ReturnCodeType DEF SignalErrorHook, Stops, ReturnCodes
    <2>2. /\ phase' = "finish" /\ err' = "ErrSignalError" /\ wasm' = Charged
          /\ UNCHANGED <<frameVars, instance, result, status, codeUpdates, metering, bigInt, journal>>
        BY <1>5 DEF SignalErrorHook, Stops, frameVars, meteringVars, runtimeVars, storageVars,
            bigIntVars, blockchainVars
    <2>3. phase' \in {"running", "finish"} /\ err' \in Errors
        BY <2>2 DEF Errors
    <2> QED BY <1>1, <1>2, <2>1, <2>2, <2>3, QuietFrames
<1> QED BY <1>3, <1>4, <1>5

\* Every API function.
LEMMA HookKeepsFrames ==
    ASSUME FramesInv, Hook PROVE KeepsFrames
<1>1. /\ Recipients \subseteq Address /\ CallValues \subseteq Nat /\ GasLimits \subseteq Uint
    BY VMHostAssumption
<1>2. ASSUME NEW dest \in Recipients, NEW value \in CallValues, NEW limit \in GasLimits,
             NEW f \in Invocations,
             \/ ExecuteOnDestContextHook(dest, value, limit, f[1], f[2])
             \/ ExecuteOnDestContextByCallerHook(dest, value, limit, f[1], f[2])
             \/ ExecuteOnSameContextHook(dest, value, limit, f[1], f[2])
      PROVE  KeepsFrames
    BY <1>1, <1>2, InvocationType, CallHookFrames
<1>3. ASSUME NEW dest \in Recipients, NEW value \in CallValues, NEW limit \in GasLimits,
             NEW f \in Invocations, TransferValueExecuteHook(dest, value, limit, f[1], f[2])
      PROVE  KeepsFrames
    BY <1>1, <1>3, InvocationType, TransferHookFrames
<1>4. ASSUME NEW dest \in Recipients, NEW limit \in GasLimits, NEW f \in Invocations,
             \/ DelegateExecutionHook(dest, limit, f[1], f[2])
             \/ ExecuteReadOnlyHook(dest, limit, f[1], f[2])
      PROVE  KeepsFrames
    <2>1. 0 \in Nat
        OBVIOUS
    <2> QED BY <1>1, <1>4, <2>1, InvocationType, CallHookFrames
<1>5. ASSUME NEW dest \in Recipients, NEW limit \in GasLimits, NEW f \in Invocations,
             \/ TransferESDTFails(dest, limit, f[1], f[2])
             \/ TransferESDTExecuteHook(dest, limit, f[1], f[2])
      PROVE  KeepsFrames
    BY <1>1, <1>5, InvocationType, ESDTHookFrames
<1>6. ASSUME NEW dest, NEW hook,
             SyncCallToOtherShard(hook, dest) \/ BadArguments(hook) \/ RefuseBuiltinFunction(hook)
      PROVE  KeepsFrames
    BY <1>6, RefusedFrames
<1>7. ASSUME NEW dest \in Recipients, NEW limit \in GasLimits,
             \/ BuiltinFunctionFails(dest, limit)
             \/ BuiltinFunctionDone(dest, limit)
             \/ BuiltinFunctionRefused(dest, limit)
             \/ BuiltinFunctionThenCall(dest, limit)
      PROVE  KeepsFrames
    BY <1>1, <1>7, BuiltinFrames
<1>8. ASSUME NEW dest \in Recipients, NEW value \in CallValues, TransferValueHook(dest, value)
      PROVE  KeepsFrames
    <2>1. 0 \in Uint /\ IsInvocation("none", NoCode)
        BY ZeroIsWord DEF IsInvocation, FunctionNames
    <2> QED BY <1>1, <1>8, <2>1, TransferHookFrames
<1>9. ASSUME NEW code \in Code, NEW value \in CallValues, NEW limit \in GasLimits,
             CreateContractHook(code, value, limit)
      PROVE  KeepsFrames
    BY <1>1, <1>9, CreateHookFrames
<1>10. ASSUME NEW source \in Recipients, NEW value \in CallValues, NEW limit \in GasLimits,
              DeployFromSourceContractHook(source, value, limit)
       PROVE  KeepsFrames
    BY <1>1, <1>10, CreateHookFrames
<1>11. ASSUME NEW value \in Value, StorageStoreHook(value) PROVE KeepsFrames
    BY <1>11, StoreHookFrames
<1>12. CASE WriteLogHook \/ BigIntNewHook \/ SignalErrorHook
    BY <1>12, LocalHookFrames
<1> QED BY <1>2, <1>3, <1>4, <1>5, <1>6, <1>7, <1>8, <1>9, <1>10, <1>11, <1>12 DEF Hook

\* A run that starts, or fails before it has an instance.
LEMMA RunKeepsFrames ==
    ASSUME FramesInv, Run PROVE FramesInv'
<1>1. phase = "idle" /\ StartRun
    BY DEF Run, RunSmartContractCall, RunCodeDeployment, StartRun
<1>2. TypeOK /\ InstancesInv /\ AlignedInv
    BY DEF FramesInv, HostInv
<1>3. wasm \in Instances /\ OnlyPoints(wasm, wasm, instance) /\ instance \in InstanceIds
    BY <1>2, InstanceTypes DEF OnlyPoints
<1>4. instanceStack = <<>>
    <2>1. Nested({"dest", "same"}) = 0
        BY <1>1, <1>2, CountEmpty DEF AlignedInv, CallsInv, Nested, CountOf
    <2> QED BY <1>2, <2>1, StackEmpty DEF AlignedInv, StacksAligned
<1>5. ASSUME NEW e \in Errors, FailBeforeStart(e), instanceStack' = instanceStack
      PROVE  /\ InstancesInv' /\ wasm' \in Instances /\ instance' \in InstanceIds
             /\ phase' \in {"running", "finish"} /\ err' \in Errors
    <2>1. phase' = "finish" /\ err' = e /\ UNCHANGED <<instance, wasm>>
        BY <1>5 DEF FailBeforeStart
    <2>2. InstancesInv'
        BY <1>1, <1>2, <1>3, <1>5, <2>1, FailedInstances DEF WasmVars
    <2> QED BY <1>3, <1>5, <2>1, <2>2
<1>6. ASSUME NEW input \in Execution, NEW out \in VMOutput, NEW cost \in Uint,
             InitContexts(input, out, cost)
      PROVE  metering' \in Metering /\ instanceStack' = instanceStack
    <2>1. input.gasProvided \in Uint
        BY <1>6 DEF Execution, Runtime
    <2>2. MeteringFromInput(input.gasProvided) \in Metering
        BY <2>1, MeteringFromInputType
    <2>3. CanDeductInitialGas(input.gasProvided, cost) =>
            DeductInitialGas(MeteringFromInput(input.gasProvided), input.gasProvided, cost) \in Metering
        BY <1>6, <2>1, <2>2, DeductType
    <2> QED BY <1>6, <2>2, <2>3 DEF InitContexts
<1>7. ASSUME NEW input \in Execution, NEW out \in VMOutput, NEW cost \in Uint,
             InitContexts(input, out, cost), NEW code, StartWasmerInstance(code, wasm)
      PROVE  /\ InstancesInv' /\ wasm' \in Instances /\ instance' \in InstanceIds
             /\ phase' \in {"running", "finish"} /\ err' \in Errors
    <2>1. metering' \in Metering /\ instanceStack' = instanceStack
        BY <1>6, <1>7
    <2> QED BY <1>1, <1>2, <1>3, <1>4, <1>7, <2>1, StartInstances
<1>8. /\ TxSender \in Address /\ Entrypoints \subseteq Address /\ CallValues \subseteq Nat
      /\ RunGas \subseteq Uint /\ CreateCost \in Uint /\ Deployments \subseteq Address \X Code
      /\ PrepareCost \in [Code -> Uint] /\ CompileCost \in [Code -> Uint]
    BY VMHostAssumption
<1>9. ASSUME NEW dest \in Entrypoints, NEW value \in CallValues, NEW gas \in RunGas,
             RunSmartContractCall(dest, value, gas)
      PROVE  FramesInv'
    <2> DEFINE paid == AddTxValueToAccount(NewVMOutput, dest, value)
               code == GetCode(paid, dest)
               cost == IF code = NoCode THEN 0 ELSE PrepareCost[code]
               input == Input(dest, TxSender, value, gas, "call", NoCode)
               out == IF gas < GetCodeCost THEN paid ELSE SetCode(paid, dest, code)
    <2>1. dest \in Address /\ value \in Nat /\ gas \in Uint
        BY <1>8
    <2>2. paid \in VMOutput
        BY <2>1, NewVMOutputType, AddTxValueType
    <2>3. InitContexts(input, out, cost)
        BY <1>9 DEF RunSmartContractCall
    <2>4. \/ FailBeforeStart("ErrNotEnoughGas") \/ FailBeforeStart("ErrContractNotFound")
          \/ StartWasmerInstance(code, wasm)
        BY <1>9 DEF RunSmartContractCall
    <2> HIDE DEF paid
    <2>5. code \in Code \cup {NoCode}
        BY <2>1, <2>2, GetCodeType
    <2> HIDE DEF code
    <2>6. out \in VMOutput
        BY <2>1, <2>2, <2>5, SetCodeType
    <2>7. cost \in Uint
        BY <1>8, <2>5, ZeroIsWord
    <2>8. input \in Execution
        <3>1. IsInvocation("call", NoCode) /\ "call" \in ContractFunctions
            BY DEF IsInvocation, FunctionNames, ContractFunctions
        <3> QED BY <1>8, <2>1, <3>1, InputType
    <2> HIDE DEF out, cost, input
    <2>9. instanceStack' = instanceStack
        BY <1>6, <2>3, <2>6, <2>7, <2>8
    <2>10. /\ InstancesInv' /\ wasm' \in Instances /\ instance' \in InstanceIds
           /\ phase' \in {"running", "finish"} /\ err' \in Errors
        <3>1. CASE FailBeforeStart("ErrNotEnoughGas") \/ FailBeforeStart("ErrContractNotFound")
            <4>1. "ErrNotEnoughGas" \in Errors /\ "ErrContractNotFound" \in Errors
                BY DEF Errors
            <4> QED BY <1>5, <2>9, <3>1, <4>1
        <3>2. CASE StartWasmerInstance(code, wasm)
            BY <1>7, <2>3, <2>6, <2>7, <2>8, <3>2
        <3> QED BY <2>4, <3>1, <3>2
    <2> QED BY <1>1, <2>3, <2>6, <2>7, <2>8, <2>10, RunFrames
<1>10. ASSUME NEW d \in Deployments, NEW value \in CallValues, NEW gas \in RunGas,
              RunCodeDeployment(d[1], d[2], value, gas)
       PROVE  FramesInv'
    <2> DEFINE cost == AddUint64(CreateCost, CompileCost[d[2]])
               input == Input(d[1], TxSender, value, gas, "init", d[2])
               out == AddTxValueToAccount(NewVMOutput, d[1], value)
    <2>1. d[1] \in Address /\ d[2] \in Code /\ value \in Nat /\ gas \in Uint
        BY <1>8
    <2>2. out \in VMOutput
        BY <2>1, NewVMOutputType, AddTxValueType
    <2>3. cost \in Uint
        BY <1>8, <2>1, WordTypes
    <2>4. input \in Execution
        <3>1. IsInvocation("init", d[2]) /\ "init" \in ContractFunctions
            BY <2>1 DEF IsInvocation, FunctionNames, ContractFunctions
        <3> QED BY <1>8, <2>1, <3>1, InputType
    <2>5. InitContexts(input, out, cost)
        BY <1>10 DEF RunCodeDeployment
    <2>6. FailBeforeStart("ErrNotEnoughGas") \/ StartWasmerInstance(d[2], wasm)
        BY <1>10 DEF RunCodeDeployment
    <2> HIDE DEF out, cost, input
    <2>7. instanceStack' = instanceStack
        BY <1>6, <2>2, <2>3, <2>4, <2>5
    <2>8. /\ InstancesInv' /\ wasm' \in Instances /\ instance' \in InstanceIds
          /\ phase' \in {"running", "finish"} /\ err' \in Errors
        <3>1. CASE FailBeforeStart("ErrNotEnoughGas")
            <4>1. "ErrNotEnoughGas" \in Errors
                BY DEF Errors
            <4> QED BY <1>5, <2>7, <3>1, <4>1
        <3>2. CASE StartWasmerInstance(d[2], wasm)
            BY <1>7, <2>2, <2>3, <2>4, <2>5, <3>2
        <3> QED BY <2>6, <3>1, <3>2
    <2> QED BY <1>1, <2>2, <2>3, <2>4, <2>5, <2>8, RunFrames
<1> QED BY <1>9, <1>10 DEF Run

\* host.execute.
LEMMA ExecuteKeepsFrames ==
    ASSUME FramesInv, Execute PROVE KeepsFrames
<1>1. phase = "execute"
    BY DEF Execute, RefuseInit, ExecuteCall, ExecuteUpgrade
<1>2. /\ UNCHANGED <<frameVars, codeUpdates, bigInt, journal, status, result>>
      /\ instanceStack' = instanceStack
    BY DEF Execute, frameVars, storageVars, bigIntVars, blockchainVars
<1>3. /\ output \in VMOutput /\ metering \in Metering /\ runtime \in Execution
      /\ runtime.scAddress \in Address /\ runtime.gasProvided \in Uint
      /\ wasm \in Instances /\ instance \in InstanceIds
      /\ OnlyPoints(wasm, wasm, instance)
    BY <1>1, ActiveTypes
<1>4. TypeOK /\ InstancesInv /\ AlignedInv
    BY DEF FramesInv, HostInv
<1>5. instance \in InstanceIds \ {0}
    <2>1. instanceStack # <<>> /\ instance = Last(instanceStack)
        BY <1>1, <1>4 DEF InstancesInv
    <2>2. \E k \in DOMAIN instanceStack : instance = instanceStack[k]
        BY <1>4, <2>1, StackPop DEF AlignedInv
    <2> QED BY <1>3, <1>4, <2>2 DEF InstancesInv
<1>6. OnlyPoints(wasm, ChargeCaller, instance)
    BY <1>3, <1>5, UseGasPoints DEF ChargeCaller
<1>7. ASSUME NEW w, OnlyPoints(wasm, w, instance), wasm' = w, instance' = instance,
             phase' = "finish", err' \in Errors, output' \in VMOutput, metering' \in Metering
      PROVE  KeepsFrames
    <2>1. InstancesInv'
        BY <1>1, <1>2, <1>4, <1>7, FailedInstances DEF WasmVars
    <2>2. /\ wasm' \in Instances /\ instance' \in InstanceIds
          /\ \A i \in InstanceIds \ {0} : i # instance /\ i # instance' => wasm'[i] = wasm[i]
        BY <1>3, <1>7 DEF OnlyPoints
    <2> QED BY <1>1, <1>2, <1>7, <2>1, <2>2, ExecuteFrames
<1>8. ASSUME NEW code, StartWasmerInstance(code, ChargeCaller), output' \in VMOutput,
             metering' \in Metering
      PROVE  KeepsFrames
    <2>1. phase = "idle" => instanceStack = <<>>
        BY <1>1
    <2>2. /\ InstancesInv' /\ wasm' \in Instances /\ instance' \in InstanceIds
          /\ phase' \in {"running", "finish"} /\ err' \in Errors
          /\ \A i \in InstanceIds \ {0} : i # instance /\ i # instance' => wasm'[i] = wasm[i]
          /\ instance' # 0 => wasm[instance'] = DeadInstance
          /\ \A k \in DOMAIN instanceStack : instanceStack[k] # instance'
        BY <1>1, <1>2, <1>4, <1>6, <1>8, <2>1, StartInstances
    <2> QED BY <1>1, <1>2, <1>8, <2>2, ExecuteFrames
<1>9. CASE RefuseInit
    <2>1. /\ wasm' = wasm /\ instance' = instance /\ phase' = "finish"
          /\ err' = "ErrInitFuncCalledInRun" /\ output' = output /\ metering' = metering
        BY <1>9 DEF RefuseInit, FailBeforeStart
    <2>2. err' \in Errors
        BY <2>1 DEF Errors
    <2> QED BY <1>3, <1>7, <2>1, <2>2
<1>10. ASSUME NEW e \in Errors, FailCharged(e), output' \in VMOutput, metering' \in Metering
       PROVE  KeepsFrames
    <2>1. wasm' = ChargeCaller /\ instance' = instance /\ phase' = "finish" /\ err' = e
        BY <1>10 DEF FailCharged
    <2> QED BY <1>6, <1>7, <1>10, <2>1
<1>e. {"ErrContractNotFound", "ErrNotEnoughGas", "ErrUpgradeNotAllowed"} \subseteq Errors
    BY DEF Errors
<1>11. CASE ExecuteCall
    <2> DEFINE code == GetCode(output, runtime.scAddress)
    <2>1. code \in Code \cup {NoCode}
        BY <1>3, GetCodeType
    <2>2. output' = SetCode(output, runtime.scAddress, code)
        BY <1>11 DEF ExecuteCall
    <2>3. \/ FailCharged("ErrContractNotFound") /\ metering' = metering
          \/ FailCharged("ErrNotEnoughGas") /\ metering' = metering
          \/ /\ code # NoCode /\ CanDeductInitialGas(runtime.gasProvided, PrepareCost[code])
             /\ metering' = DeductInitialGas(metering, runtime.gasProvided, PrepareCost[code])
             /\ StartWasmerInstance(code, ChargeCaller)
        BY <1>11 DEF ExecuteCall
    <2> HIDE DEF code
    <2>4. output' \in VMOutput
        BY <1>3, <2>1, <2>2, SetCodeType
    <2>5. CASE \/ FailCharged("ErrContractNotFound") /\ metering' = metering
               \/ FailCharged("ErrNotEnoughGas") /\ metering' = metering
        BY <1>3, <1>10, <1>e, <2>4, <2>5
    <2>6. CASE /\ code # NoCode /\ CanDeductInitialGas(runtime.gasProvided, PrepareCost[code])
               /\ metering' = DeductInitialGas(metering, runtime.gasProvided, PrepareCost[code])
               /\ StartWasmerInstance(code, ChargeCaller)
        <3>1. PrepareCost[code] \in Uint
            BY <2>1, <2>6, VMHostAssumption
        <3>2. metering' \in Metering
            BY <1>3, <2>6, <3>1, DeductType
        <3> QED BY <1>8, <2>4, <2>6, <3>2
    <2> QED BY <2>3, <2>5, <2>6
<1>12. CASE ExecuteUpgrade
    <2> DEFINE cost == AddUint64(CreateCost, CompileCost[runtime.code])
    <2>1. \/ FailCharged("ErrUpgradeNotAllowed") /\ metering' = metering /\ output' = output
          \/ /\ FailCharged("ErrNotEnoughGas") /\ metering' = metering
             /\ output' = [output EXCEPT !.returnCode = "OutOfGas"]
          \/ /\ CanDeductInitialGas(runtime.gasProvided, cost)
             /\ metering' = DeductInitialGas(metering, runtime.gasProvided, cost)
             /\ StartWasmerInstance(runtime.code, ChargeCaller)
             /\ output' = output
        BY <1>12 DEF ExecuteUpgrade
    <2>2. cost \in Uint
        <3>1. runtime.code \in Code
            BY <1>3, <1>12 DEF ExecuteUpgrade, Execution
        <3>2. CompileCost[runtime.code] \in Uint /\ CreateCost \in Uint
            BY <3>1, VMHostAssumption
        <3> QED BY <3>2, WordTypes
    <2> HIDE DEF cost
    <2>3. CASE FailCharged("ErrUpgradeNotAllowed") /\ metering' = metering /\ output' = output
        BY <1>3, <1>10, <1>e, <2>3
    <2>4. CASE /\ FailCharged("ErrNotEnoughGas") /\ metering' = metering
               /\ output' = [output EXCEPT !.returnCode = "OutOfGas"]
        <3>1. output' \in VMOutput
            BY <1>3, <2>4, ReturnCodeType DEF ReturnCodes
        <3> QED BY <1>3, <1>10, <1>e, <2>4, <3>1
    <2>5. CASE /\ CanDeductInitialGas(runtime.gasProvided, cost)
               /\ metering' = DeductInitialGas(metering, runtime.gasProvided, cost)
               /\ StartWasmerInstance(runtime.code, ChargeCaller)
               /\ output' = output
        <3>1. metering' \in Metering
            BY <1>3, <2>2, <2>5, DeductType
        <3> QED BY <1>3, <1>8, <2>5, <3>1
    <2> QED BY <2>1, <2>3, <2>4, <2>5
<1> QED BY <1>9, <1>11, <1>12 DEF Execute

\* The instructions of the contract, and the ways in which it ends.
LEMMA WasmKeepsFrames ==
    ASSUME FramesInv, Wasm PROVE KeepsFrames
<1>1. phase = "running"
    BY DEF Wasm, ExecuteInstructions, OutOfGas, Trap, Return
<1>2. /\ output \in VMOutput /\ metering \in Metering /\ journal \in Nat /\ bigInt \in Nat
      /\ codeUpdates \in SUBSET Address /\ status \in {0, 1} /\ err \in Errors
      /\ runtime.scAddress \in Address /\ runtime.code \in Code \cup {NoCode}
      /\ OnlyPoints(wasm, wasm, instance)
    BY <1>1, ActiveTypes
<1>3. ASSUME NEW gas \in InstructionGas, ExecuteInstructions(gas) PROVE KeepsFrames
    <2>1. gas \in Uint
        BY VMHostAssumption
    <2>2. /\ wasm' = UseGas(wasm, instance, gas) /\ phase' = phase
          /\ UNCHANGED <<frameVars, instance, result, status, err, output, codeUpdates, metering,
                         bigInt, journal>>
        BY <1>3 DEF ExecuteInstructions, frameVars, outputVars, meteringVars, runtimeVars,
            storageVars, bigIntVars, blockchainVars
    <2>3. OnlyPoints(wasm, wasm', instance)
        BY <1>1, <1>2, <2>1, <2>2, UseMoreGas
    <2>4. phase' \in {"running", "finish"}
        BY <1>1, <2>2
    <2> QED BY <1>1, <1>2, <2>2, <2>3, <2>4, QuietFrames
<1>4. CASE OutOfGas \/ Trap
    <2>1. /\ wasm' = wasm /\ phase' = "finish" /\ err' \in {"ErrNotEnoughGas", "ErrExecutionFailed"}
          /\ UNCHANGED <<frameVars, instance, result, status, output, codeUpdates, metering,
                         bigInt, journal>>
        BY <1>4 DEF OutOfGas, Trap, Stops, frameVars, meteringVars, runtimeVars,
            storageVars, bigIntVars, blockchainVars
    <2>2. err' \in Errors /\ phase' \in {"running", "finish"}
        BY <2>1 DEF Errors
    <2> QED BY <1>1, <1>2, <2>1, <2>2, QuietFrames
<1>5. CASE Return
    <2>1. /\ wasm' = wasm /\ phase' = "finish" /\ err' \in {"ErrNotEnoughGas", "nil"}
          /\ UNCHANGED <<frameVars, instance, result, status, metering, bigInt, journal>>
        BY <1>5 DEF Return, frameVars, meteringVars, runtimeVars,
            storageVars, bigIntVars, blockchainVars
    <2>2. DeployCode \/ UNCHANGED <<output, codeUpdates>>
        BY <1>5 DEF Return
    <2>3. output' \in VMOutput /\ codeUpdates' \in SUBSET Address
        BY <1>2, <2>2, SetCodeType DEF DeployCode
    <2>4. err' \in Errors /\ phase' \in {"running", "finish"}
        BY <2>1 DEF Errors
    <2> QED BY <1>1, <1>2, <2>1, <2>3, <2>4, QuietFrames
<1> QED BY <1>3, <1>4, <1>5 DEF Wasm

-----------------------------------------------------------------------------
(* Finishing an execution *)

\* The books that a finishing execution closes.
LEMMA ClosedTypes ==
    ASSUME FramesInv, phase = "finish"
    PROVE  /\ ClosedMetering \in Metering /\ ClosedOutput \in VMOutput /\ GasRemaining \in Uint
           /\ \A out \in VMOutput : FailureOutput(out) \in VMOutput
<1>1. /\ output \in VMOutput /\ metering \in Metering /\ runtime.scAddress \in Address
      /\ wasm \in Instances /\ instance \in InstanceIds
    BY ActiveTypes
<1>2. PointsUsed(wasm, instance) \in Uint
    BY <1>1, UsedType, ZeroIsWord DEF PointsUsed
<1>3. Touched \in VMOutput
    <2> DEFINE updated == RemoveNonUpdatedCode(output, codeUpdates)
    <2>1. updated \in VMOutput
        BY <1>1, RemoveCodeType
    <2> HIDE DEF updated
    <2>2. WithAccount(updated, runtime.scAddress, AccountOf(updated, runtime.scAddress)) \in VMOutput
        BY <1>1, <2>1, AccountOfType, WithAccountType
    <2> QED BY <2>2 DEF Touched, updated
<1>4. ClosedMetering \in Metering
    BY <1>1, <1>2, UpdateSCGasUsedType DEF ClosedMetering
<1>5. ClosedOutput \in VMOutput
    BY <1>3, <1>4, SetGasUsedType DEF ClosedOutput
<1>6. GasRemaining \in Uint
    BY <1>1, <1>2, GasLeftType DEF GasRemaining
<1>7. ASSUME NEW out \in VMOutput PROVE FailureOutput(out) \in VMOutput
    <2> DEFINE account == AccountOf(out, runtime.scAddress)
    <2>1. account \in Account /\ metering.initialGasProvided \in Uint
        BY <1>1, AccountOfType DEF Metering
    <2> HIDE DEF account
    <2>2. [account EXCEPT !.gasUsed = AddUint64(@, metering.initialGasProvided)] \in Account
        BY <2>1, GasUsedType
    <2>3. WithAccount(out, runtime.scAddress,
            [account EXCEPT !.gasUsed = AddUint64(@, metering.initialGasProvided)]) \in VMOutput
        BY <1>1, <2>2, WithAccountType
    <2> QED BY <2>3 DEF FailureOutput, account
<1> QED BY <1>4, <1>5, <1>6, <1>7

\* The caller's runtime: what it was, but for readOnly.
LEMMA CallerRuntimeType ==
    ASSUME FramesInv, phase = "finish", Last(calls).kind \in {"dest", "same"}
    PROVE  CallerRuntime \in Execution /\ SameCall(Last(before).runtime, CallerRuntime)
           /\ Last(before).runtime \in Runtime
<1> DEFINE n == Len(before)
           r == Last(runtimeStack)
<1>1. n \in DOMAIN before /\ Last(before) = before[n] /\ r = runtimeStack[n] /\ r \in Execution
    <2>1. phase # "idle"
        OBVIOUS
    <2> QED BY <2>1, TopFrame
<1>2. SavedState(n)
    BY <1>1 DEF FramesInv, CallersInv
<1>3. SameCall(Last(before).runtime, r) /\ Last(before).runtime \in Runtime
    BY <1>1, <1>2 DEF SavedState
<1> HIDE DEF r
<1>4. [r EXCEPT !.readOnly = FALSE] \in Execution /\ SameCall(r, [r EXCEPT !.readOnly = FALSE])
    BY <1>1 DEF Execution, Runtime, SameCall
<1>5. CallerRuntime = r \/ CallerRuntime = [r EXCEPT !.readOnly = FALSE]
    BY DEF CallerRuntime, r
<1> QED BY <1>1, <1>3, <1>4, <1>5 DEF SameCall

\* The end of the API function that made the call.
LEMMA ReportTypes ==
    ASSUME FramesInv, phase = "finish", Last(calls).kind \in {"dest", "same"},
           NEW failed \in BOOLEAN, NEW out \in VMOutput, NEW m \in Metering,
           NEW w, OnlyPoints(PoppedInstances, w, Last(instanceStack)),
           CallReports(failed, out, m, w)
    PROVE  /\ output' \in VMOutput /\ Saves(output', out) /\ metering' = m
           /\ OnlyPoints(PoppedInstances, wasm', Last(instanceStack))
           /\ phase' \in {"running", "finish"} /\ err' \in Errors
           /\ status' = (IF failed THEN 1 ELSE 0)
<1> DEFINE id == Last(instanceStack)
<1>1. id \in InstanceIds \ {0}
    <2>1. phase # "idle"
        OBVIOUS
    <2> QED BY <2>1, TopFrame
<1>2. w \in Instances
    BY DEF OnlyPoints
<1>3. metering' = m
    BY DEF CallReports
<1> HIDE DEF id
<1>4. CASE failed /\ Fault(out, m, w, id)
    <2>1. GasLeft(m, w[id].used) \in Uint
        BY <1>1, <1>2, UsedType, GasLeftType
    <2>2. OnlyPoints(w, wasm', id)
        BY <1>1, <1>2, <1>4, <2>1, UseGasPoints DEF Fault
    <2>3. OnlyPoints(PoppedInstances, wasm', id)
        BY <2>2, PointsCompose DEF id
    <2>4. output' = [out EXCEPT !.returnCode = "ExecutionFailed"]
        BY <1>4 DEF Fault
    <2>5. output' \in VMOutput /\ Saves(output', out)
        <3>1. output' \in VMOutput
            BY <2>4, ReturnCodeType DEF ReturnCodes
        <3> QED BY <2>4, <3>1 DEF Saves, VMOutput
    <2> QED BY <1>3, <1>4, <2>3, <2>5 DEF Fault, Errors, id
<1>5. CASE /\ phase' = "running" /\ err' = "nil" /\ wasm' = w
           /\ status' = (IF failed THEN 1 ELSE 0) /\ output' = out
    BY <1>3, <1>5 DEF Saves, Errors
<1> QED BY <1>4, <1>5 DEF CallReports, id

\* What the callee's end leaves of the instances.
LEMMA PoppedType ==
    ASSUME FramesInv, phase = "finish", Last(calls).kind \in {"dest", "same"}, NEW gas \in Uint
    PROVE  /\ OnlyPoints(PoppedInstances, PoppedInstances, Last(instanceStack))
           /\ OnlyPoints(PoppedInstances, RestoreGas(PoppedInstances, Last(instanceStack), gas),
                         Last(instanceStack))
<1>1. wasm \in Instances /\ Last(instanceStack) \in InstanceIds \ {0}
    <2>1. phase # "idle"
        OBVIOUS
    <2> QED BY <2>1, ActiveTypes, TopFrame
<1>2. PoppedInstances \in Instances
    BY <1>1, CleanType DEF PoppedInstances
<1>3. OnlyPoints(PoppedInstances, PoppedInstances, Last(instanceStack))
    BY <1>2 DEF OnlyPoints
<1> QED BY <1>1, <1>2, <1>3, RestoreGasPoints

\* The caller goes on where it was: on its instance, in its runtime, under its
\* storage address, and no other instance has changed.
Resumes ==
    /\ instance' = Last(before).instance
    /\ runtime' \in Runtime /\ Last(before).runtime \in Runtime
    /\ SameCall(Last(before).runtime, runtime')
    /\ address' = Last(before).address
    /\ \A i \in InstanceIds \ {0} : i # instance' => wasm'[i] = Last(before).wasm[i]

\* What all the ways of finishing a callee have in common.
LEMMA LeaveFrames ==
    ASSUME FramesInv, phase = "finish", Last(calls).kind \in {"dest", "same"},
           LeaveCallee(CallerRuntime),
           NEW failed \in BOOLEAN, NEW out \in VMOutput, NEW m \in Metering,
           NEW w, OnlyPoints(PoppedInstances, w, Last(instanceStack)),
           CallReports(failed, out, m, w),
           bigInt' \in Nat, journal' \in Nat, codeUpdates' \in SUBSET Address,
           IF Last(calls).kind = "dest"
           THEN addressStack' = Front(addressStack) /\ address' = Last(addressStack)
           ELSE UNCHANGED <<address, addressStack>>
    PROVE  /\ FramesInv' /\ Resumes /\ Saves(output', out) /\ metering' = m
           /\ status' = (IF failed THEN 1 ELSE 0)
<1>1. /\ output' \in VMOutput /\ Saves(output', out) /\ metering' = m
      /\ OnlyPoints(PoppedInstances, wasm', Last(instanceStack))
      /\ phase' \in {"running", "finish"} /\ err' \in Errors
      /\ status' = (IF failed THEN 1 ELSE 0)
    BY ReportTypes
<1>2. status' \in {0, 1}
    BY <1>1
<1>3. /\ calls' = Front(calls) /\ before' = Front(before)
      /\ bigIntStack' = Front(bigIntStack) /\ outputStack' = Front(outputStack)
      /\ meteringStack' = Front(meteringStack) /\ runtimeStack' = Front(runtimeStack)
      /\ runtime' = CallerRuntime /\ instanceStack' = Front(instanceStack)
      /\ instance' = Last(instanceStack) /\ snapshots' = Front(snapshots) /\ result' = result
    BY DEF LeaveCallee
<1>4. /\ runtime' \in Execution /\ SameCall(Last(before).runtime, runtime')
      /\ Last(before).runtime \in Runtime
    BY <1>3, CallerRuntimeType
<1>5. /\ FramesInv' /\ address' = Last(before).address
      /\ \A i \in InstanceIds \ {0} : i # instance' => wasm'[i] = Last(before).wasm[i]
    BY <1>1, <1>2, <1>3, <1>4, PopFrames
<1>6. instance' = Last(before).instance
    <2>1. phase # "idle"
        OBVIOUS
    <2>2. /\ Last(before) = before[Len(before)] /\ Len(before) \in DOMAIN before
          /\ Last(instanceStack) = instanceStack[Len(before)]
        BY <2>1, TopFrame
    <2>3. SavedState(Len(before))
        BY <2>2 DEF FramesInv, CallersInv
    <2> QED BY <1>3, <2>2, <2>3 DEF SavedState
<1>7. runtime' \in Runtime
    BY <1>4 DEF Execution
<1> QED BY <1>1, <1>4, <1>5, <1>6, <1>7 DEF Resumes

\* The state that a failed callee's caller gets back.
Restored ==
    LET pre == Last(before)
        call == Last(calls)
        accounts == IF call.hook = "createContract"
                    THEN [pre.output.accounts EXCEPT ![call.newAddress] = NoAccount]
                    ELSE pre.output.accounts
    IN  /\ output'.accounts = accounts
        /\ output'.logs = pre.output.logs /\ output'.refund = pre.output.refund
        /\ metering' = pre.metering
        /\ address' = pre.address /\ bigInt' = pre.bigInt
        /\ journal' = pre.journal

\* What the stacks hold for the caller of the frame that is finishing.
LEMMA TopSaved ==
    ASSUME FramesInv, phase = "finish", Last(calls).kind \in {"dest", "same"}
    PROVE  /\ Saves(Last(outputStack), Last(before).output)
           /\ Last(meteringStack) = Last(before).metering
           /\ Last(bigIntStack) = Last(before).bigInt
           /\ Last(snapshots) = Last(before).journal
           /\ Last(outputStack) \in VMOutput /\ Last(meteringStack) \in Metering
           /\ Last(bigIntStack) \in Nat /\ Last(snapshots) \in Nat
           /\ Last(runtimeStack) \in Execution
<1> DEFINE n == Len(before)
<1>1. /\ n \in DOMAIN before /\ Last(before) = before[n]
      /\ Last(outputStack) = outputStack[n] /\ Last(meteringStack) = meteringStack[n]
      /\ Last(bigIntStack) = bigIntStack[n] /\ Last(snapshots) = snapshots[n]
      /\ Last(outputStack) \in VMOutput /\ Last(meteringStack) \in Metering
      /\ Last(bigIntStack) \in Nat /\ Last(snapshots) \in Nat
      /\ Last(runtimeStack) \in Execution
    <2>1. phase # "idle"
        OBVIOUS
    <2> QED BY <2>1, TopFrame
<1>2. SavedState(n)
    BY <1>1 DEF FramesInv, CallersInv
<1> QED BY <1>1, <1>2 DEF SavedState, Saves

\* finishExecuteOnDestContext, after a failure.
LEMMA DestFailedStep ==
    ASSUME FramesInv, FinishDestFailed
    PROVE  FramesInv' /\ Resumes /\ Restored
<1> DEFINE call == Last(calls)
           created == call.hook = "createContract"
           saved == Last(outputStack)
           out == IF created THEN DeleteOutputAccount(saved, call.newAddress) ELSE saved
           gas == IF err = "nil" /\ BooksBalance THEN GasRemaining ELSE 0
           w == RestoreGas(PoppedInstances, Last(instanceStack), gas)
<1>1. phase = "finish" /\ Last(calls).kind = "dest" /\ Last(calls).kind \in {"dest", "same"}
    BY DEF FinishDestFailed
<1>2. /\ LeaveCallee(CallerRuntime)
      /\ CallReports(TRUE, out, Last(meteringStack), w)
      /\ codeUpdates' \in {codeUpdates, codeUpdates \ {call.newAddress}}
      /\ bigInt' = Last(bigIntStack)
      /\ address' = Last(addressStack) /\ addressStack' = Front(addressStack)
      /\ journal' = Last(snapshots)
    BY DEF FinishDestFailed, RevertToSnapshot
<1>3. /\ Saves(saved, Last(before).output) /\ saved \in VMOutput
      /\ Last(meteringStack) = Last(before).metering /\ Last(meteringStack) \in Metering
      /\ Last(bigIntStack) = Last(before).bigInt /\ Last(bigIntStack) \in Nat
      /\ Last(snapshots) = Last(before).journal /\ Last(snapshots) \in Nat
    BY <1>1, TopSaved
<1>4. OnlyPoints(PoppedInstances, w, Last(instanceStack))
    <2>1. gas \in Uint
        BY <1>1, ZeroIsWord, ClosedTypes
    <2> QED BY <1>1, <2>1, PoppedType
<1>5. codeUpdates' \in SUBSET Address
    <2>1. codeUpdates \in SUBSET Address
        BY <1>1, ActiveTypes
    <2> QED BY <1>2, <2>1
<1> HIDE DEF saved, w
<1>6. out \in VMOutput
    BY <1>3, DeleteType
<1>7. /\ out.logs = saved.logs /\ out.refund = saved.refund
      /\ out.accounts = IF created THEN [saved.accounts EXCEPT ![call.newAddress] = NoAccount]
                        ELSE saved.accounts
    BY <1>3 DEF DeleteOutputAccount, VMOutput
<1> HIDE DEF out
<1>8. /\ FramesInv' /\ Resumes /\ Saves(output', out) /\ metering' = Last(meteringStack)
    <2>1. IF Last(calls).kind = "dest"
          THEN addressStack' = Front(addressStack) /\ address' = Last(addressStack)
          ELSE UNCHANGED <<address, addressStack>>
        BY <1>1, <1>2
    <2>2. bigInt' \in Nat /\ journal' \in Nat
        BY <1>2, <1>3
    <2> QED BY <1>1, <1>2, <1>3, <1>4, <1>5, <1>6, <2>1, <2>2, LeaveFrames
<1>9. address' = Last(before).address
    BY <1>8 DEF Resumes
<1> QED BY <1>2, <1>3, <1>7, <1>8, <1>9 DEF Saves, Restored

\* finishExecuteOnDestContext, after a success.
LEMMA DestOkStep ==
    ASSUME FramesInv, FinishDestOk
    PROVE  FramesInv' /\ Resumes /\ status' = 0
<1> DEFINE merged == CopyOf(MergeVMOutputs(Last(outputStack), ClosedOutput))
           caller == Last(runtimeStack).scAddress
           account == AccountOf(merged, caller)
           out == IF Last(calls).hook = "createContract"
                  THEN WithAccount(merged, caller, [account EXCEPT !.nonce = @ + 1])
                  ELSE merged
           m == MergeMetering(ClosedMetering, Last(meteringStack))
           w == RestoreGas(PoppedInstances, Last(instanceStack), GasRemaining)
<1>1. phase = "finish" /\ Last(calls).kind = "dest" /\ Last(calls).kind \in {"dest", "same"}
    BY DEF FinishDestOk
<1>2. /\ LeaveCallee(CallerRuntime) /\ CallReports(FALSE, out, m, w)
      /\ bigInt' = Last(bigIntStack)
      /\ address' = Last(addressStack) /\ addressStack' = Front(addressStack)
      /\ UNCHANGED <<codeUpdates, journal>>
    BY DEF FinishDestOk
<1>3. /\ Last(outputStack) \in VMOutput /\ Last(meteringStack) \in Metering
      /\ Last(bigIntStack) \in Nat /\ Last(runtimeStack) \in Execution
      /\ ClosedMetering \in Metering /\ ClosedOutput \in VMOutput /\ GasRemaining \in Uint
      /\ codeUpdates \in SUBSET Address /\ journal \in Nat
    BY <1>1, TopSaved, ClosedTypes, ActiveTypes
<1>4. caller \in Address
    BY <1>3 DEF Execution
<1>5. merged \in VMOutput
    <2>1. MergeVMOutputs(Last(outputStack), ClosedOutput) \in VMOutput
        BY <1>3, MergeType
    <2> QED BY <2>1, CopyOfSaves
<1> HIDE DEF merged, caller
<1>6. account \in Account
    BY <1>4, <1>5, AccountOfType
<1> HIDE DEF account
<1>7. [account EXCEPT !.nonce = @ + 1] \in Account
    BY <1>6 DEF Account
<1>8. out \in VMOutput
    BY <1>4, <1>5, <1>7, WithAccountType
<1>9. m \in Metering
    BY <1>3, MergeMeteringType
<1>10. OnlyPoints(PoppedInstances, w, Last(instanceStack))
    BY <1>1, <1>3, PoppedType
<1> HIDE DEF out, m, w
<1>11. IF Last(calls).kind = "dest"
       THEN addressStack' = Front(addressStack) /\ address' = Last(addressStack)
       ELSE UNCHANGED <<address, addressStack>>
    BY <1>1, <1>2
<1>12. bigInt' \in Nat /\ journal' \in Nat /\ codeUpdates' \in SUBSET Address
    BY <1>2, <1>3
<1> QED BY <1>1, <1>2, <1>8, <1>9, <1>10, <1>11, <1>12, LeaveFrames

\* finishExecuteOnSameContext, after a failure.
LEMMA SameFailedStep ==
    ASSUME FramesInv, FinishSameFailed
    PROVE  FramesInv' /\ Resumes /\ Restored
<1>1. phase = "finish" /\ Last(calls).kind = "same" /\ Last(calls).kind \in {"dest", "same"}
    BY DEF FinishSameFailed
<1>2. /\ LeaveCallee(CallerRuntime)
      /\ CallReports(TRUE, Last(outputStack), Last(meteringStack), PoppedInstances)
      /\ codeUpdates' = codeUpdates
      /\ bigInt' = Last(bigIntStack)
      /\ UNCHANGED <<address, addressStack>>
      /\ journal' = Last(snapshots)
    BY DEF FinishSameFailed, RevertToSnapshot, storageVars
<1>3. /\ Saves(Last(outputStack), Last(before).output) /\ Last(outputStack) \in VMOutput
      /\ Last(meteringStack) = Last(before).metering /\ Last(meteringStack) \in Metering
      /\ Last(bigIntStack) = Last(before).bigInt /\ Last(bigIntStack) \in Nat
      /\ Last(snapshots) = Last(before).journal /\ Last(snapshots) \in Nat
    BY <1>1, TopSaved
<1>4. OnlyPoints(PoppedInstances, PoppedInstances, Last(instanceStack))
    BY <1>1, ZeroIsWord, PoppedType
<1>5. /\ codeUpdates' \in SUBSET Address /\ bigInt' \in Nat /\ journal' \in Nat
      /\ IF Last(calls).kind = "dest"
         THEN addressStack' = Front(addressStack) /\ address' = Last(addressStack)
         ELSE UNCHANGED <<address, addressStack>>
    BY <1>1, <1>2, <1>3, ActiveTypes
<1>6. /\ FramesInv' /\ Resumes /\ Saves(output', Last(outputStack))
      /\ metering' = Last(meteringStack)
    BY <1>1, <1>2, <1>3, <1>4, <1>5, LeaveFrames
<1>7. Last(calls).hook # "createContract"
    <2>1. calls \in Seq(CallFrame) /\ calls # <<>>
        BY <1>1 DEF FramesInv, HostInv, ActiveInv, AlignedInv, CallsInv
    <2>2. Last(calls) \in CallFrame
        BY <2>1, PopProperties
    <2> QED BY <1>1, <2>2 DEF CallFrame
<1> QED BY <1>2, <1>3, <1>6, <1>7 DEF Saves, Restored, Resumes

\* finishExecuteOnSameContext, after a success.
LEMMA SameOkStep ==
    ASSUME FramesInv, FinishSameOk
    PROVE  FramesInv' /\ Resumes /\ status' = 0
<1> DEFINE out == IF BooksBalance THEN ClosedOutput ELSE FailureOutput(ClosedOutput)
           m == MergeMetering(ClosedMetering, Last(meteringStack))
           gas == IF BooksBalance THEN GasRemaining ELSE 0
           w == RestoreGas(PoppedInstances, Last(instanceStack), gas)
<1>1. phase = "finish" /\ Last(calls).kind = "same" /\ Last(calls).kind \in {"dest", "same"}
    BY DEF FinishSameOk
<1>2. /\ LeaveCallee(CallerRuntime) /\ CallReports(FALSE, out, m, w)
      /\ UNCHANGED <<bigInt, codeUpdates, journal, address, addressStack>>
    BY DEF FinishSameOk, storageVars
<1>3. /\ Last(meteringStack) \in Metering
      /\ ClosedMetering \in Metering /\ ClosedOutput \in VMOutput /\ GasRemaining \in Uint
      /\ FailureOutput(ClosedOutput) \in VMOutput
      /\ codeUpdates \in SUBSET Address /\ journal \in Nat /\ bigInt \in Nat
    BY <1>1, TopSaved, ClosedTypes, ActiveTypes
<1>4. out \in VMOutput /\ gas \in Uint
    BY <1>3, ZeroIsWord
<1>5. m \in Metering
    BY <1>3, MergeMeteringType
<1> HIDE DEF out, m, gas
<1>6. OnlyPoints(PoppedInstances, w, Last(instanceStack))
    BY <1>1, <1>4, PoppedType
<1> HIDE DEF w
<1>7. /\ codeUpdates' \in SUBSET Address /\ bigInt' \in Nat /\ journal' \in Nat
      /\ IF Last(calls).kind = "dest"
         THEN addressStack' = Front(addressStack) /\ address' = Last(addressStack)
         ELSE UNCHANGED <<address, addressStack>>
    BY <1>1, <1>2, <1>3
<1> QED BY <1>1, <1>2, <1>4, <1>5, <1>6, <1>7, LeaveFrames

\* The end of the run.
LEMMA FinishRunStep ==
    ASSUME FramesInv, FinishRun
    PROVE  FramesInv' /\ calls' = <<>>
<1>1. phase = "finish" /\ Last(calls).kind = "top" /\ phase' = "idle" /\ err' = "nil"
    BY DEF FinishRun
<1>2. /\ wasm' = Clean(wasm, instance) /\ instance' = 0 /\ calls' = <<>>
      /\ UNCHANGED <<status, before, outputStack, codeUpdates, meteringStack, runtime,
                     runtimeStack, instanceStack, storageVars, bigIntVars, blockchainVars>>
    BY DEF FinishRun
<1>3. /\ output \in VMOutput /\ metering \in Metering /\ ClosedMetering \in Metering
      /\ ClosedOutput \in VMOutput /\ GasRemaining \in Uint /\ FailureOutput(output) \in VMOutput
    BY <1>1, ClosedTypes, ActiveTypes
<1>4. output' \in VMOutput /\ metering' \in Metering
    BY <1>3 DEF FinishRun
<1>5. result' \in Result
    <2>1. [returnCode |-> output.returnCode, gasRemaining |-> GasRemaining,
           accounts |-> ClosedOutput.accounts] \in Result
        BY <1>3 DEF Result, VMOutput
    <2>2. NoResult \in Result
        BY ZeroIsWord, NewVMOutputType DEF NoResult, Result, VMOutput, ReturnCodes
    <2>3. ResolveReturnCodeFromError(err) \in ReturnCodes
        BY Zenon DEF ResolveReturnCodeFromError, ReturnCodes
    <2>4. [NoResult EXCEPT !.returnCode = ResolveReturnCodeFromError(err)] \in Result
        <3> DEFINE none == NoResult
                   code == ResolveReturnCodeFromError(err)
        <3>1. none \in Result /\ code \in ReturnCodes
            BY <2>2, <2>3
        <3> HIDE DEF none, code
        <3>2. [none EXCEPT !.returnCode = code] \in Result
            BY <3>1 DEF Result
        <3> QED BY <3>2 DEF none, code
    <2>5. \/ result' = [returnCode |-> output.returnCode, gasRemaining |-> GasRemaining,
                        accounts |-> ClosedOutput.accounts]
          \/ result' = [NoResult EXCEPT !.returnCode = ResolveReturnCodeFromError(err)]
        BY Zenon DEF FinishRun
    <2> QED BY <2>1, <2>4, <2>5, Zenon
<1>6. err' \in Errors
    BY <1>1 DEF Errors
<1> QED BY <1>1, <1>2, <1>4, <1>5, <1>6, FinishFrames

-----------------------------------------------------------------------------
(* Every step keeps the invariant *)

\* The host before its first run.
LEMMA InitFrames == Init => FramesInv
<1> SUFFICES ASSUME Init PROVE FramesInv
    OBVIOUS
<1>1. AlignedInv
    <2>1. Nested({"dest"}) = 0 /\ Nested({"dest", "same"}) = 0
        BY CountEmpty DEF Init, Nested, CountOf
    <2> QED BY <2>1, StackEmpty DEF Init, AlignedInv, CallsInv, StacksAligned
<1>2. TypeOK
    <2>1. \A T : <<>> \in Seq(T)
        OBVIOUS
    <2>2. InitMetering \in Metering
        BY ZeroIsWord DEF InitMetering, Metering, GasMap
    <2>3. InitRuntime \in Runtime
        BY ZeroIsWord DEF InitRuntime, Runtime, ContractFunctions
    <2>4. NoResult \in Result
        BY ZeroIsWord, NewVMOutputType DEF NoResult, Result, VMOutput, ReturnCodes
    <2>5. 0 \in InstanceIds /\ DeadInstance \in Instance
        BY ZeroIsWord, Bounds, VMHostAssumption DEF InstanceIds, DeadInstance, Instance
    <2>6. wasm \in [InstanceIds \ {0} -> Instance]
        BY <2>5 DEF Init
    <2>7. "idle" \in Phases /\ "nil" \in Errors /\ 0 \in Nat /\ {} \in SUBSET Address
        BY DEF Phases, Errors
    <2> QED BY <2>1, <2>2, <2>3, <2>4, <2>5, <2>6, <2>7, NewVMOutputType DEF Init, TypeOK
<1>3. ActiveInv
    <2>1. \A T : <<>> \in Seq(T)
        OBVIOUS
    <2> QED BY <2>1 DEF Init, ActiveInv
<1>4. InstancesInv
    BY DEF Init, InstancesInv, DeadInstance
<1>5. DepthInv /\ DOMAIN before = {}
    BY StackEmpty DEF Init, DepthInv
<1> QED BY <1>1, <1>2, <1>3, <1>4, <1>5 DEF FramesInv, HostInv, CallersInv

\* Stuttering.
LEMMA SameFrameVars == FramesInv /\ UNCHANGED vars => FramesInv'
<1> SUFFICES ASSUME FramesInv, UNCHANGED vars PROVE FramesInv'
    OBVIOUS
<1> USE DEF vars, contextVars, outputVars, meteringVars, runtimeVars, storageVars,
            bigIntVars, blockchainVars
<1>1. AlignedInv' /\ DepthInv' /\ ActiveInv'
    BY QuietAligned DEF FramesInv, HostInv, stackVars, DepthInv, ActiveInv
<1>2. TypeOK'
    BY DEF FramesInv, HostInv, TypeOK
<1>3. InstancesInv'
    BY DEF FramesInv, HostInv, InstancesInv, Owned
<1>4. CallersInv'
    <2>1. ASSUME NEW k \in DOMAIN before PROVE SavedInstances(k)'
        BY DEF FramesInv, CallersInv, SavedInstances, CalleeInstance
    <2> QED BY <2>1, QuietCallers DEF FramesInv, frameVars
<1> QED BY <1>1, <1>2, <1>3, <1>4 DEF FramesInv, HostInv

\* What a step does: it starts a run, keeps or adds frames, ends a call with or
\* without success, or ends the run.
StepKinds ==
    \/ Run /\ FramesInv'
    \/ KeepsFrames
    \/ FramesInv' /\ Resumes /\ Restored
    \/ FramesInv' /\ Resumes /\ status' = 0
    \/ FramesInv' /\ calls' = <<>>

\* One case per action of the host.
LEMMA StepFrames ==
    ASSUME FramesInv, Next PROVE StepKinds
<1>1. CASE Run
    BY <1>1, RunKeepsFrames DEF StepKinds
<1>2. CASE Execute
    BY <1>2, ExecuteKeepsFrames DEF StepKinds
<1>3. CASE Hook
    BY <1>3, HookKeepsFrames DEF StepKinds
<1>4. CASE Wasm
    BY <1>4, WasmKeepsFrames DEF StepKinds
<1>5. CASE FinishDestFailed
    BY <1>5, DestFailedStep DEF StepKinds
<1>6. CASE FinishDestOk
    BY <1>6, DestOkStep DEF StepKinds
<1>7. CASE FinishSameFailed
    BY <1>7, SameFailedStep DEF StepKinds
<1>8. CASE FinishSameOk
    BY <1>8, SameOkStep DEF StepKinds
<1>9. CASE FinishRun
    BY <1>9, FinishRunStep DEF StepKinds
<1> QED BY <1>1, <1>2, <1>3, <1>4, <1>5, <1>6, <1>7, <1>8, <1>9 DEF Next, Finish

\* The invariant is inductive.
LEMMA NextFrames == FramesInv /\ [Next]_vars => FramesInv'
<1>1. FramesInv /\ Next => FramesInv'
    BY StepFrames DEF StepKinds, KeepsFrames
<1> QED BY <1>1, SameFrameVars

\* A step that leaves fewer frames, and some, ends a call.
LEMMA EndOfCall ==
    ASSUME FramesInv, Next, Len(calls') < Len(calls), calls' # <<>>
    PROVE  Resumes /\ (status' = 1 => Restored)
<1>1. FramesInv'
    BY NextFrames
<1>2. Len(calls) \in Nat
    BY StackEmpty DEF FramesInv, HostInv, AlignedInv
<1>3. Len(calls') \in Nat
    <2>1. IsStack(calls')
        BY <1>1 DEF FramesInv, HostInv, AlignedInv
    <2> QED BY <2>1, StackEmpty
<1>4. ~Run
    <2>1. SUFFICES ASSUME Run PROVE FALSE
        OBVIOUS
    <2>2. phase = "idle"
        BY <2>1 DEF Run, RunSmartContractCall, RunCodeDeployment, StartRun
    <2>3. Len(calls) = 0
        BY <2>2, StackEmpty DEF FramesInv, HostInv, AlignedInv, CallsInv
    <2> QED BY <1>3, <2>3
<1>5. ~KeepsFrames
    BY <1>2, <1>3 DEF KeepsFrames
<1> QED BY <1>4, <1>5, StepFrames DEF StepKinds

\* The runtime of the caller, field by field.
LEMMA SameRuntime ==
    ASSUME NEW r \in Runtime, NEW s \in Runtime, SameCall(s, r)
    PROVE  [r EXCEPT !.readOnly = s.readOnly] = s
<1>1. s = [scAddress |-> s.scAddress, caller |-> s.caller, callValue |-> s.callValue,
           gasProvided |-> s.gasProvided, function |-> s.function, code |-> s.code,
           readOnly |-> s.readOnly]
    BY DEF Runtime
<1>2. r = [scAddress |-> r.scAddress, caller |-> r.caller, callValue |-> r.callValue,
           gasProvided |-> r.gasProvided, function |-> r.function, code |-> r.code,
           readOnly |-> r.readOnly]
    BY DEF Runtime
<1>3. [r EXCEPT !.readOnly = s.readOnly] =
        [scAddress |-> r.scAddress, caller |-> r.caller, callValue |-> r.callValue,
         gasProvided |-> r.gasProvided, function |-> r.function, code |-> r.code,
         readOnly |-> s.readOnly]
    BY <1>2
<1> QED BY <1>1, <1>3 DEF SameCall

-----------------------------------------------------------------------------
(* Theorems *)

\* The inductive invariant holds in every state of every run: the stacks are
\* aligned, the state is well typed, live instances are those of the calls in
\* progress, and what each caller saved is on the stacks.
THEOREM FramesTheorem == Spec => []FramesInv
    BY InitFrames, NextFrames, PTL DEF Spec

\* Every state is well typed: no sequence of API functions, failures and merges
\* takes an account, a gas counter, the points of an instance or a return code out
\* of its range.
THEOREM TypeOKTheorem == Spec => []TypeOK
<1>1. FramesInv => TypeOK
    BY DEF FramesInv, HostInv
<1> QED BY <1>1, FramesTheorem, PTL

\* No path through execution.go pops a state stack too often or too seldom: at
\* every moment each stack has one state for each call in progress that pushed
\* it, and between runs they are all empty.
THEOREM StacksAlignedTheorem == Spec => []StacksAligned
<1>1. FramesInv => StacksAligned
    BY DEF FramesInv, HostInv, AlignedInv
<1> QED BY <1>1, FramesTheorem, PTL

\* However a callee ends, PopSetActiveState gives its caller its own instance,
\* runtime and storage address back, and no instance but the caller's has changed
\* since the call.
THEOREM CallerResumesInItsContextTheorem == Spec => CallerResumesInItsContext
<1> DEFINE Ends == Len(calls') < Len(calls) /\ calls' # <<>>
           Resumed == LET pre == Last(before)
                      IN  /\ instance' = pre.instance
                          /\ [runtime' EXCEPT !.readOnly = pre.runtime.readOnly] = pre.runtime
                          /\ address' = pre.address
                          /\ \A i \in DOMAIN wasm \ {instance'} : wasm'[i] = pre.wasm[i]
<1>1. ASSUME FramesInv, Next, Ends PROVE Resumed
    <2>1. Resumes
        BY <1>1, EndOfCall
    <2>2. DOMAIN wasm = InstanceIds \ {0}
        BY <1>1 DEF FramesInv, HostInv, TypeOK
    <2>3. [runtime' EXCEPT !.readOnly = Last(before).runtime.readOnly] = Last(before).runtime
        BY <2>1, SameRuntime DEF Resumes
    <2> QED BY <2>1, <2>2, <2>3 DEF Resumes
<1>2. FramesInv /\ [Next]_vars => [Ends => Resumed]_vars
    <2> HIDE DEF Ends, Resumed
    <2> QED BY <1>1
<1> QED BY <1>2, FramesTheorem, PTL DEF Spec, CallerResumesInItsContext

\* "restore contexts as if the execution didn't happen": after a failed call, at any
\* depth and whatever its callees did, the accounts, logs, refund, gas state, storage
\* address, big integers and chain are those of the moment of the call.
THEOREM FailedCallLeavesNoTraceTheorem == Spec => FailedCallLeavesNoTrace
<1>1. FramesInv /\ [Next]_vars => [CalleeFails => Restored]_vars
    <2>1. ASSUME FramesInv, Next, CalleeFails PROVE Restored
        BY <2>1, EndOfCall DEF CalleeFails
    <2> QED BY <2>1
<1> QED BY <1>1, FramesTheorem, PTL DEF Spec, FailedCallLeavesNoTrace, Restored
=============================================================================
