------------------------------- MODULE VMHost -------------------------------
(***************************************************************************)
(* Nested contract execution (vmhost/hostCore/execution.go and host.go) on *)
(* the contexts of the host.  Each context keeps an active state and a     *)
(* state stack of its own; ExecuteOnDestContext and ExecuteOnSameContext   *)
(* push and pop a different selection of them, and a failed callee must    *)
(* leave its caller as if it had not run.                                  *)
(*                                                                         *)
(* The running contract is the environment: it calls any API function it   *)
(* imports, with any arguments, until it returns, traps or is out of gas.  *)
(* The Go call stack between the contract and its callee is calls.         *)
(*                                                                         *)
(* The model has one shard's host, with every activation flag on, warm     *)
(* instances off (see WasmerInstances) and no asynchronous calls.          *)
(***************************************************************************)
EXTENDS MeteringContext, StorageContext, SequencesExt

CONSTANTS
    Imports,              \* the API functions that the contracts import
    Functions,            \* the functions that contracts name in their calls
    Entrypoints,          \* the addresses that transactions call
    TxSender,             \* the account that sends the transactions
    Recipients,           \* the addresses that contracts name as destinations
    LocalAddress,         \* addresses in the shard of this host
    SmartContract,        \* addresses of smart contracts
    Payable,              \* accounts that accept value
    Upgradeable,          \* contracts with upgradeable code metadata
    OwnerOf,              \* the owner of each contract on the chain
    InvalidCode,          \* codes that Wasmer refuses to instantiate
    ChainBalance,         \* the balance of each account on the chain
    NewAddressOf,         \* blockchain hook: address from creator and nonce
    MaxNonce,             \* bound on the contracts that an account creates
    GetCodeCost,          \* BaseOperationCost.GetCode
    PrepareCost,          \* GetCodeCost + AoTPreparePerByte * len(code)
    CompileCost,          \* CompilePerByte * len(code)
    CreateCost,           \* BaseOpsAPICost.CreateContract
    HookCost,             \* BaseOpsAPICost of every API function
    BuiltinCost,          \* gas taken by a built-in function
    MaxWasmerInstances,
    RunGas,               \* gas provided by transactions
    GasLimits,            \* gas limits that contracts name
    InstructionGas,       \* gas of the instructions between API calls
    Deployments,          \* <<address, code>> deployed by transactions
    CallValues,           \* values that callers send
    NoAddress

HookNames ==
    {"executeOnDestContext", "executeOnDestContextByCaller", "executeOnSameContext",
     "delegateExecution", "executeReadOnly", "transferValueExecute", "transferValue",
     "transferESDTExecute", "createContract", "deployFromSourceContract",
     "storageStore", "writeLog", "bigIntNew", "signalError"}

\* The API functions that only call contracts in the shard of this host.
SyncHooks ==
    {"executeOnDestContext", "executeOnDestContextByCaller", "executeOnSameContext",
     "delegateExecution", "executeReadOnly"}

\* What a caller can name: a function of a contract, the constructor, an
\* upgrade, a built-in function of the protocol, or nothing at all.
ContractFunctions == {"call", "init", "upgradeContract"}
FunctionNames == ContractFunctions \cup {"builtin", "none"}

ASSUME VMHostAssumption ==
    /\ Imports \subseteq HookNames
    /\ Functions \subseteq FunctionNames
    /\ Entrypoints \subseteq Address /\ Recipients \subseteq Address
    /\ TxSender \in Address
    /\ IsFiniteSet(Address) /\ NoAddress \notin Address
    /\ InvalidCode \subseteq Code
    /\ ChainBalance \in [DOMAIN ChainCode -> Nat]
    /\ MaxNonce \in Nat
    /\ NewAddressOf \in [Address \X (0 .. MaxNonce) -> Address]
    /\ PrepareCost \in [Code -> Uint]
    /\ CompileCost \in [Code -> Uint]
    /\ {GetCodeCost, CreateCost, HookCost, BuiltinCost} \subseteq Uint
    /\ HookCost > 0
    /\ MaxWasmerInstances \in Nat \ {0}
    /\ RunGas \subseteq Uint /\ GasLimits \subseteq Uint
    /\ InstructionGas \subseteq Uint \ {0}
    /\ Deployments \subseteq Address \X Code
    /\ CallValues \subseteq Nat

VARIABLES
    phase,                   \* what the host is doing
    err,                     \* error of the execution that is finishing
    calls,                   \* the Go frames of the calls in progress
    status,                  \* what the last API function returned
    output, outputStack, codeUpdates,
    metering, meteringStack,
    runtime, runtimeStack,
    instance, instanceStack, \* handles of Wasmer instances, 0 for nil
    wasm,                    \* points used and gas limit of the live instances
    address, addressStack,   \* the storage context
    bigInt, bigIntStack,     \* number of big integer handles in use
    journal, snapshots,      \* chain state changes, blockchain context
    result,                  \* what the last run returned to the node
    before                   \* auxiliary: the callers' contexts at their calls

outputVars == <<output, outputStack, codeUpdates>>
meteringVars == <<metering, meteringStack>>
runtimeVars == <<runtime, runtimeStack, instance, instanceStack>>
storageVars == <<address, addressStack>>
bigIntVars == <<bigInt, bigIntStack>>
blockchainVars == <<journal, snapshots>>
contextVars == <<outputVars, meteringVars, runtimeVars, wasm, storageVars,
                 bigIntVars, blockchainVars>>
vars == <<phase, err, calls, status, contextVars, result, before>>

-----------------------------------------------------------------------------
(* The shape of the state *)

Phases == {"idle", "execute", "running", "finish"}

Errors == {"nil", "ErrNotEnoughGas", "ErrExecutionFailed", "ErrSignalError",
           "ErrContractNotFound", "ErrContractInvalid", "ErrInitFuncCalledInRun",
           "ErrTransferInsufficientFunds", "ErrUpgradeNotAllowed",
           "ErrMaxInstancesReached"}

\* The fields of the runtime context that come from the input, and readOnly.
Runtime == [scAddress : Address \cup {NoAddress},
            caller : Address \cup {NoAddress},
            callValue : Nat, gasProvided : Uint, function : ContractFunctions,
            code : Code \cup {NoCode}, readOnly : BOOLEAN]

InitRuntime == [scAddress |-> NoAddress, caller |-> NoAddress, callValue |-> 0,
                gasProvided |-> 0, function |-> "call", code |-> NoCode,
                readOnly |-> FALSE]

\* newAddress is set by CreateNewContract only.
Call == [kind : {"top", "dest", "same"}, hook : HookNames \cup {"run"},
         newAddress : Address \cup {NoAddress}]

Result == [returnCode : ReturnCodes, gasRemaining : Uint, accounts : Accounts]
NoResult == [returnCode |-> "Ok", gasRemaining |-> 0, accounts |-> NewVMOutput.accounts]

InstanceIds == 0 .. MaxWasmerInstances

\* A Wasmer instance: the points used, a signed number that SetPointsUsed keeps
\* positive, the limit, and whether it can still run.
Instance == [used : 0 .. MaxInt, limit : Uint, live : BOOLEAN]
DeadInstance == [used |-> 0, limit |-> 0, live |-> FALSE]

TypeOK ==
    /\ phase \in Phases
    /\ err \in Errors
    /\ calls \in Seq(Call)
    /\ status \in {0, 1}
    /\ output \in VMOutput /\ outputStack \in Seq(VMOutput)
    /\ codeUpdates \in SUBSET Address
    /\ metering \in Metering /\ meteringStack \in Seq(Metering)
    /\ runtime \in Runtime /\ runtimeStack \in Seq(Runtime)
    /\ instance \in InstanceIds /\ instanceStack \in Seq(InstanceIds)
    /\ wasm \in [InstanceIds \ {0} -> Instance]
    /\ address \in Address \cup {NoAddress}
    /\ addressStack \in Seq(Address \cup {NoAddress})
    /\ bigInt \in Nat /\ bigIntStack \in Seq(Nat)
    /\ journal \in Nat /\ snapshots \in Seq(Nat)
    /\ result \in Result

-----------------------------------------------------------------------------
(* Gas points of the Wasmer instances *)

\* Mutant: the conversion to a signed number is not guarded.
SetPointsUsedUnguarded(gas) == gas

SetPointsUsed(gas) == IF gas > MaxInt THEN MaxInt ELSE gas

PointsUsed(w, id) == IF id = 0 THEN 0 ELSE w[id].used

UseGas(w, id, gas) ==
    [w EXCEPT ![id].used = SetPointsUsed(AddUint64(@, gas))]

RestoreGas(w, id, gas) ==
    [w EXCEPT ![id].used = IF gas <= @ THEN SetPointsUsed(SubUint64(@, gas)) ELSE @]

\* CleanWasmerInstance.
Clean(w, id) == [i \in DOMAIN w |-> IF i = id THEN DeadInstance ELSE w[i]]

FreshInstance(w) == CHOOSE i \in InstanceIds \ {0} : ~w[i].live

\* The contexts of a caller when one of its API functions enters the host.
Contexts(out, m, w) ==
    [output |-> out, metering |-> m, runtime |-> runtime, instance |-> instance,
     address |-> address, bigInt |-> bigInt, journal |-> journal, wasm |-> w,
     codeUpdates |-> codeUpdates]

-----------------------------------------------------------------------------
(* Starting a run: host.go and the top-level functions of execution.go *)

Input(dest, caller, value, gas, function, code) ==
    [scAddress |-> dest, caller |-> caller, callValue |-> value,
     gasProvided |-> gas, function |-> function, code |-> code,
     readOnly |-> FALSE]

\* InitState, then the contexts of the contract that the transaction calls.
\* Neither the snapshots of the blockchain context nor the instance stack are
\* among the stacks that are cleared.  The journal counts from the start of the
\* run.
InitContexts(input, out, cost) ==
    /\ bigIntStack' = <<>> /\ bigInt' = 0
    /\ outputStack' = <<>> /\ output' = out /\ codeUpdates' = {}
    /\ meteringStack' = <<>>
    /\ LET m == MeteringFromInput(input.gasProvided) IN
       metering' = IF CanDeductInitialGas(input.gasProvided, cost)
                   THEN DeductInitialGas(m, input.gasProvided, cost) ELSE m
    /\ runtimeStack' = <<>> /\ runtime' = input
    /\ addressStack' = <<>> /\ address' = input.scAddress
    /\ journal' = 0
    /\ UNCHANGED <<instanceStack, snapshots>>

\* StartWasmerInstance, with the gas limit left by the deduction in metering'.
StartWasmerInstance(code, w) ==
    IF Len(instanceStack) >= MaxWasmerInstances
    THEN instance' = 0 /\ wasm' = w /\ phase' = "finish" /\ err' = "ErrMaxInstancesReached"
    ELSE IF code \in InvalidCode
    THEN instance' = 0 /\ wasm' = w /\ phase' = "finish" /\ err' = "ErrContractInvalid"
    ELSE /\ instance' = FreshInstance(w)
         /\ wasm' = [w EXCEPT ![instance'] =
                [used |-> 0, limit |-> metering'.gasForExecution, live |-> TRUE]]
         /\ phase' = "running" /\ err' = "nil"

FailBeforeStart(e) ==
    phase' = "finish" /\ err' = e /\ UNCHANGED <<instance, wasm>>

StartRun ==
    /\ phase = "idle"
    /\ calls' = <<[kind |-> "top", hook |-> "run", newAddress |-> NoAddress]>>
    /\ before' = <<>>
    /\ status' = 0
    /\ result' = NoResult

\* doRunSmartContractCall, up to the call of the contract's function.
RunSmartContractCall(dest, value, gas) ==
    LET paid == AddTxValueToAccount(NewVMOutput, dest, value)
        code == GetCode(paid, dest)
        cost == IF code = NoCode THEN 0 ELSE PrepareCost[code]
        input == Input(dest, TxSender, value, gas, "call", NoCode)
    IN  /\ StartRun
        /\ InitContexts(input, IF gas < GetCodeCost THEN paid ELSE SetCode(paid, dest, code),
                        cost)
        /\ IF gas < GetCodeCost THEN FailBeforeStart("ErrNotEnoughGas")
           ELSE IF code = NoCode THEN FailBeforeStart("ErrContractNotFound")
           ELSE IF ~CanDeductInitialGas(gas, cost)
           THEN FailBeforeStart("ErrNotEnoughGas")
           ELSE StartWasmerInstance(code, wasm)

\* doRunSmartContractCreate and doRunSmartContractUpgrade, which share
\* performCodeDeployment: up to the call of the new code's init function.
RunCodeDeployment(dest, code, value, gas) ==
    LET cost == AddUint64(CreateCost, CompileCost[code])
        input == Input(dest, TxSender, value, gas, "init", code)
    IN  /\ StartRun
        /\ InitContexts(input, AddTxValueToAccount(NewVMOutput, dest, value), cost)
        /\ IF ~CanDeductInitialGas(gas, cost)
           THEN FailBeforeStart("ErrNotEnoughGas")
           ELSE StartWasmerInstance(code, wasm)

-----------------------------------------------------------------------------
(* Entering a callee *)

BalanceOf(out, a) ==
    IF a \in DOMAIN ChainBalance THEN ChainBalance[a] + AccountOf(out, a).delta ELSE 0

\* Mutant: the balance of the chain, without what the run has already moved.
HasSufficientChainBalance(out, sender, value) == BalanceOf(NewVMOutput, sender) >= value

HasSufficientBalance(out, sender, value) == BalanceOf(out, sender) >= value

\* The contexts that ExecuteOnDestContext and ExecuteOnSameContext both push,
\* and the transfer of value to the callee, on the callee's active output.
\* The callee inherits the readOnly of its caller's runtime r.
EnterCallee(frame, input, r, out, calleeOut, m, w) ==
    LET funded == HasSufficientBalance(calleeOut, input.caller, input.callValue) IN
    /\ calls' = Append(calls, frame)
    /\ before' = Append(before, Contexts(out, m, w))
    /\ bigIntStack' = Append(bigIntStack, bigInt)
    /\ outputStack' = Append(outputStack, CopyOf(out))
    /\ output' = IF funded
                 THEN MoveValue(calleeOut, input.scAddress, input.caller, input.callValue)
                 ELSE calleeOut
    /\ runtimeStack' = Append(runtimeStack, r)
    /\ runtime' = [input EXCEPT !.readOnly = r.readOnly]
    /\ instanceStack' = Append(instanceStack, instance)
    /\ meteringStack' = Append(meteringStack, m)
    /\ metering' = MeteringFromInput(input.gasProvided)
    /\ snapshots' = Append(snapshots, journal)
    /\ wasm' = w
    /\ phase' = IF funded THEN "execute" ELSE "finish"
    /\ err' = IF funded THEN "nil" ELSE "ErrTransferInsufficientFunds"
    /\ UNCHANGED <<instance, result, status>>

\* executeOnDestContextNoBuiltinFunction, up to host.execute.
ExecuteOnDestContext(frame, input, out, m, w) ==
    /\ EnterCallee(frame, input, runtime, out, CensorVMOutput(out), m, w)
    /\ bigInt' = 0
    /\ addressStack' = Append(addressStack, address)
    /\ address' = input.scAddress

\* ExecuteOnSameContext, up to host.execute: the callee works on the storage,
\* the big integers and the output of its caller.
ExecuteOnSameContext(frame, input, r, w) ==
    /\ EnterCallee(frame, input, r, output, output, metering, w)
    /\ UNCHANGED <<bigInt, storageVars, codeUpdates, journal>>

-----------------------------------------------------------------------------
(* host.execute: the callee's contexts are active, the Wasmer instance is   *)
(* still the caller's.                                                      *)

AllowInitFunction == Last(calls).hook = "createContract"

\* Only the deployment of a contract may call init; nothing is charged.
RefuseInit ==
    /\ phase = "execute"
    /\ runtime.function = "init" /\ ~AllowInitFunction
    /\ FailBeforeStart("ErrInitFuncCalledInRun")
    /\ UNCHANGED <<output, metering>>

\* Mutant: the caller keeps the gas that it gives to the callee.
ChargeNobody == wasm

\* The gas provided to the callee is used up on the caller's instance; what
\* is left will be restored when the callee has finished.
ChargeCaller == UseGas(wasm, instance, runtime.gasProvided)

FailCharged(e) ==
    phase' = "finish" /\ err' = e /\ wasm' = ChargeCaller /\ UNCHANGED instance

ExecuteCall ==
    LET code == GetCode(output, runtime.scAddress) IN
    /\ phase = "execute"
    /\ runtime.function = "call" \/ (runtime.function = "init" /\ AllowInitFunction)
    /\ output' = SetCode(output, runtime.scAddress, code)
    /\ IF code = NoCode
       THEN FailCharged("ErrContractNotFound") /\ UNCHANGED metering
       ELSE IF ~CanDeductInitialGas(runtime.gasProvided, PrepareCost[code])
       THEN FailCharged("ErrNotEnoughGas") /\ UNCHANGED metering
       ELSE /\ metering' = DeductInitialGas(metering, runtime.gasProvided, PrepareCost[code])
            /\ StartWasmerInstance(code, ChargeCaller)

CheckUpgradePermission(contract, caller) ==
    /\ contract \in DOMAIN ChainCode
    /\ contract \in Upgradeable
    /\ OwnerOf[contract] = caller

\* executeUpgrade, up to the call of the new code's init function.
ExecuteUpgrade ==
    LET cost == AddUint64(CreateCost, CompileCost[runtime.code]) IN
    /\ phase = "execute"
    /\ runtime.function = "upgradeContract"
    /\ IF ~CheckUpgradePermission(runtime.scAddress, runtime.caller)
       THEN FailCharged("ErrUpgradeNotAllowed") /\ UNCHANGED <<metering, output>>
       ELSE IF ~CanDeductInitialGas(runtime.gasProvided, cost)
       THEN /\ FailCharged("ErrNotEnoughGas") /\ UNCHANGED metering
            /\ output' = [output EXCEPT !.returnCode = "OutOfGas"]
       ELSE /\ metering' = DeductInitialGas(metering, runtime.gasProvided, cost)
            /\ StartWasmerInstance(runtime.code, ChargeCaller)
            /\ UNCHANGED output

Execute ==
    /\ RefuseInit \/ ExecuteCall \/ ExecuteUpgrade
    /\ UNCHANGED <<calls, status, outputStack, codeUpdates, meteringStack,
                   runtime, runtimeStack, instanceStack, storageVars,
                   bigIntVars, blockchainVars, result, before>>

-----------------------------------------------------------------------------
(* The running contract.  Wasmer stops a contract that has used more points  *)
(* than its limit at the next metered instruction, unless it returns first.  *)

Running(hook) ==
    /\ phase = "running"
    /\ hook \in Imports
    /\ wasm[instance].used <= wasm[instance].limit

\* Mutant: the API functions are free.
ChargedNothing == wasm

\* The instance after an API function has used its own cost.
Charged == UseGas(wasm, instance, HookCost)

Frame(kind, hook) == [kind |-> kind, hook |-> hook, newAddress |-> NoAddress]

\* The functions that contracts name, an upgrade with the code it installs.
Invocations ==
    {<<f, NoCode>> : f \in Functions \ {"upgradeContract"}}
    \cup {<<f, code>> : f \in Functions \cap {"upgradeContract"}, code \in Code}

\* prepareIndirectContractCallInput, after the API function used its cost.
IndirectInput(sender, dest, value, limit, function, code) ==
    Input(dest, sender, value,
          BoundGasLimit(metering, Charged[instance].used, limit), function, code)

\* WithFaultAndHost and FailExecution: the gas left is used up, the contract
\* is stopped by a breakpoint as soon as the API function returns.
Fault(out, m, w, id) ==
    /\ wasm' = UseGas(w, id, GasLeft(m, w[id].used))
    /\ output' = [out EXCEPT !.returnCode = "ExecutionFailed"]
    /\ phase' = "finish" /\ err' = "ErrExecutionFailed"
    /\ status' = 1

HookReturns(value) ==
    /\ status' = value
    /\ UNCHANGED <<phase, err, calls, before, result>>

ExecuteOnDestContextHook(dest, value, limit, function, code) ==
    /\ Running("executeOnDestContext")
    /\ dest \in LocalAddress /\ function \in ContractFunctions
    /\ ExecuteOnDestContext(Frame("dest", "executeOnDestContext"),
                            IndirectInput(runtime.scAddress, dest, value, limit, function, code),
                            output, metering, Charged)
    /\ UNCHANGED <<codeUpdates, journal>>

\* The callee sees, and is paid by, the caller of its caller.
ExecuteOnDestContextByCallerHook(dest, value, limit, function, code) ==
    /\ Running("executeOnDestContextByCaller")
    /\ dest \in LocalAddress /\ function \in ContractFunctions
    /\ ExecuteOnDestContext(Frame("dest", "executeOnDestContextByCaller"),
                            IndirectInput(runtime.caller, dest, value, limit, function, code),
                            output, metering, Charged)
    /\ UNCHANGED <<codeUpdates, journal>>

ExecuteOnSameContextHook(dest, value, limit, function, code) ==
    /\ Running("executeOnSameContext")
    /\ dest \in LocalAddress /\ function \in ContractFunctions
    /\ ExecuteOnSameContext(Frame("same", "executeOnSameContext"),
                            IndirectInput(runtime.scAddress, dest, value, limit, function, code),
                            runtime, Charged)

\* The call forwards the value that the caller itself received.
DelegateExecutionHook(dest, limit, function, code) ==
    /\ Running("delegateExecution")
    /\ dest \in LocalAddress /\ function \in ContractFunctions
    /\ ExecuteOnSameContext(Frame("same", "delegateExecution"),
                            IndirectInput(runtime.scAddress, dest, runtime.callValue, limit,
                                          function, code),
                            runtime, Charged)

\* ... so does a read-only call.
ExecuteReadOnlyHook(dest, limit, function, code) ==
    /\ Running("executeReadOnly")
    /\ dest \in LocalAddress /\ function \in ContractFunctions
    /\ ExecuteOnSameContext(Frame("same", "executeReadOnly"),
                            IndirectInput(runtime.scAddress, dest, runtime.callValue, limit,
                                          function, code),
                            [runtime EXCEPT !.readOnly = TRUE], Charged)

\* An API function whose arguments lie outside the memory of the contract, or
\* that stores under a protected key.
BadArguments(hook) ==
    /\ Running(hook) /\ hook # "bigIntNew"
    /\ Fault(output, metering, Charged, instance)
    /\ UNCHANGED <<calls, before, result, outputStack, codeUpdates, meteringVars,
                   runtimeVars, storageVars, bigIntVars, blockchainVars>>

\* prepareIndirectContractCallInput refuses a synchronous call to another shard.
SyncCallToOtherShard(hook, dest) ==
    /\ Running(hook)
    /\ hook \in SyncHooks
    /\ dest \notin LocalAddress
    /\ Fault(output, metering, Charged, instance)
    /\ UNCHANGED <<calls, before, result, outputStack, codeUpdates, meteringVars,
                   runtimeVars, storageVars, bigIntVars, blockchainVars>>

\* Only executeOnDestContext calls built-in functions.
RefuseBuiltinFunction(hook) ==
    /\ Running(hook)
    /\ hook \in (SyncHooks \ {"executeOnDestContext"})
                \cup {"transferValueExecute", "transferValue"}
    /\ "builtin" \in Functions
    /\ wasm' = Charged
    /\ HookReturns(1)
    /\ UNCHANGED <<outputVars, meteringVars, runtimeVars, storageVars, bigIntVars,
                   blockchainVars>>

\* What a built-in function reports: a transfer logged at its recipient.
BuiltinOutput(dest) ==
    [NewVMOutput EXCEPT !.accounts =
        [@ EXCEPT ![dest] = [NewVMOutputAccount EXCEPT !.transfers = <<0>>]]]

\* executeOnDestContext of a built-in function that fails: it changed nothing
\* on the chain, and its gas is used up.
BuiltinFunctionFails(dest, limit) ==
    LET input == IndirectInput(runtime.scAddress, dest, 0, limit, "call", NoCode)
        account == AccountOf(output, runtime.scAddress)
        failed == WithAccount(output, runtime.scAddress, [account EXCEPT
                    !.gasUsed = AddUint64(@, metering.initialGasProvided)])
    IN  /\ Running("executeOnDestContext")
        /\ "builtin" \in Functions /\ dest \in LocalAddress
        /\ Fault(failed, metering, UseGas(Charged, instance, input.gasProvided), instance)
        /\ UNCHANGED <<calls, before, result, outputStack, codeUpdates, meteringVars,
                       runtimeVars, storageVars, bigIntVars, blockchainVars>>

\* ... that succeeds and is not followed by a call of the recipient.
BuiltinFunctionDone(dest, limit) ==
    LET input == IndirectInput(runtime.scAddress, dest, 0, limit, "call", NoCode)
    IN  /\ Running("executeOnDestContext")
        /\ "builtin" \in Functions /\ dest \in LocalAddress
        /\ input.gasProvided >= BuiltinCost
        /\ output' = AddToActiveState(output, BuiltinOutput(dest))
        /\ wasm' = UseGas(Charged, instance, BuiltinCost)
        /\ journal' = journal + 1
        /\ HookReturns(0)
        /\ UNCHANGED <<outputStack, codeUpdates, meteringVars, runtimeVars,
                       storageVars, bigIntVars, snapshots>>

\* What a built-in function reports that returns no error but another code than Ok.
RefusedOutput == [NewVMOutput EXCEPT !.returnCode = "UserError"]

\* ... that reports such a code: nobody is called, no transfer is logged, and the
\* contract goes on with that code in its output.
BuiltinFunctionRefused(dest, limit) ==
    LET input == IndirectInput(runtime.scAddress, dest, 0, limit, "call", NoCode)
    IN  /\ Running("executeOnDestContext")
        /\ "builtin" \in Functions /\ dest \in LocalAddress
        /\ input.gasProvided >= BuiltinCost
        /\ output' = AddToActiveState(output, RefusedOutput)
        /\ wasm' = UseGas(Charged, instance, BuiltinCost)
        /\ HookReturns(0)
        /\ UNCHANGED <<outputStack, codeUpdates, meteringVars, runtimeVars,
                       storageVars, bigIntVars, blockchainVars>>

\* ... that succeeds and then calls the recipient with the rest of the gas.
\* The snapshot is older than the function, the pushed output is not.
BuiltinFunctionThenCall(dest, limit) ==
    LET input == IndirectInput(runtime.scAddress, dest, 0, limit, "call", NoCode)
    IN  /\ Running("executeOnDestContext")
        /\ "builtin" \in Functions /\ dest \in LocalAddress \cap SmartContract
        /\ input.gasProvided >= BuiltinCost
        /\ ExecuteOnDestContext(Frame("dest", "executeOnDestContext"),
                [input EXCEPT !.gasProvided = @ - BuiltinCost],
                AddToActiveState(output, BuiltinOutput(dest)),
                metering, UseGas(Charged, instance, BuiltinCost))
        /\ journal' = journal + 1
        /\ UNCHANGED codeUpdates

\* output.Transfer: payability is checked when gas goes with the value.
Transfer(dest, value, gas) ==
    LET sender == runtime.scAddress
        refused == gas > 0 /\ dest \notin Payable /\ value > 0
    IN  /\ IF HasSufficientBalance(output, sender, value) /\ ~refused
           THEN /\ output' = AppendTransfer(MoveValue(output, dest, sender, value), dest, gas)
                /\ wasm' = Charged
                /\ HookReturns(0)
           ELSE /\ Fault(output, metering, Charged, instance)
                /\ UNCHANGED <<calls, before, result>>
        /\ UNCHANGED <<outputStack, codeUpdates, meteringVars, runtimeVars,
                       storageVars, bigIntVars, blockchainVars>>

TransferValueHook(dest, value) ==
    Running("transferValue") /\ Transfer(dest, value, 0)

\* A call of a local contract is executed at once, and its failure is only
\* reported to the caller; any other transfer takes the gas limit with it,
\* which is not used on the caller's instance.
TransferValueExecuteHook(dest, value, limit, function, code) ==
    /\ Running("transferValueExecute")
    /\ function # "builtin"
    /\ IF function # "none" /\ dest \in LocalAddress \cap SmartContract
       THEN /\ ExecuteOnDestContext(Frame("dest", "transferValueExecute"),
                    IndirectInput(runtime.scAddress, dest, value, limit, function, code),
                    output, metering, Charged)
            /\ UNCHANGED <<codeUpdates, journal>>
       ELSE Transfer(dest, value, limit)

\* The gas that ExecuteESDTTransfer and TransferESDT ask for: the built-in
\* function's, taken from what the caller has left and, when a contract is called,
\* also from the gas for that call.
CanTransferESDT(input, execution) ==
    /\ BuiltinCost <= GasLeft(metering, Charged[instance].used)
    /\ execution => BuiltinCost <= input.gasProvided

ESDTExecution(dest, function) == function # "none" /\ dest \in SmartContract

\* The built-in function refuses the transfer, or has made it when the gas for
\* the call turns out to be too little.
TransferESDTFails(dest, limit, function, code) ==
    LET input == IndirectInput(runtime.scAddress, dest, 0, limit, function, code)
        execution == ESDTExecution(dest, function)
    IN  /\ Running("transferESDTExecute")
        /\ function # "builtin"
        /\ \/ journal' = journal
           \/ /\ CanTransferESDT(input, FALSE) /\ ~CanTransferESDT(input, execution)
              /\ journal' = journal + 1
        /\ Fault(output, metering, Charged, instance)
        /\ UNCHANGED <<calls, before, result, outputStack, codeUpdates, meteringVars,
                       runtimeVars, storageVars, bigIntVars, snapshots>>

\* transferESDTExecute and transferESDTNFTExecute.  A call of a local contract is
\* executed at once; if it fails the chain goes back to before the transfer and
\* the caller is told.  The gas for a call in another shard is used here.  The log
\* is the built-in function's, which readOnly does not suppress.
TransferESDTExecuteHook(dest, limit, function, code) ==
    LET input == IndirectInput(runtime.scAddress, dest, 0, limit, function, code)
        execution == ESDTExecution(dest, function)
        gas == IF execution THEN input.gasProvided - BuiltinCost ELSE 0
        transferred == UseGas(Charged, instance, BuiltinCost)
        sentAway == IF dest \in LocalAddress THEN 0 ELSE gas
        out == [AppendTransfer(output, dest, sentAway) EXCEPT !.logs = @ + 1]
    IN  /\ Running("transferESDTExecute")
        /\ function # "builtin"
        /\ CanTransferESDT(input, execution)
        /\ journal' = journal + 1
        /\ IF execution /\ dest \in LocalAddress
           THEN /\ ExecuteOnDestContext(Frame("dest", "transferESDTExecute"),
                        [input EXCEPT !.gasProvided = gas], out, metering, transferred)
                /\ UNCHANGED codeUpdates
           ELSE /\ output' = out
                /\ wasm' = UseGas(transferred, instance, sentAway)
                /\ HookReturns(0)
                /\ UNCHANGED <<outputStack, codeUpdates, meteringVars, runtimeVars,
                               storageVars, bigIntVars, snapshots>>

NonceOf(out, a) == AccountOf(out, a).nonce

\* CreateNewContract.  The deduction rewrites the caller's own metering state;
\* a refused creation returns 1 to the caller and has no other effect.  out is
\* the output of the caller.
CreateNewContract(out, code, value, limit) ==
    LET sender == runtime.scAddress
        cost == CompileCost[code]
        payable == CanDeductInitialGas(runtime.gasProvided, cost)
        deducted == IF payable THEN DeductInitialGas(metering, runtime.gasProvided, cost)
                    ELSE metering
        newAddress == NewAddressOf[sender, NonceOf(out, sender)]
        input == IndirectInput(sender, newAddress, value, limit, "init", NoCode)
        frame == [kind |-> "dest", hook |-> "createContract", newAddress |-> newAddress]
    IN  /\ NonceOf(out, sender) <= MaxNonce
        /\ IF payable /\ ~runtime.readOnly /\ newAddress \notin DOMAIN ChainCode
           THEN /\ ExecuteOnDestContext(frame, input, SetCode(out, newAddress, code),
                                        deducted, Charged)
                /\ codeUpdates' = codeUpdates \cup {newAddress}
                /\ UNCHANGED journal
           ELSE /\ metering' = deducted
                /\ wasm' = Charged
                /\ output' = out
                /\ HookReturns(1)
                /\ UNCHANGED <<outputStack, codeUpdates, meteringStack, runtimeVars,
                               storageVars, bigIntVars, blockchainVars>>

CreateContractHook(code, value, limit) ==
    /\ Running("createContract")
    /\ CreateNewContract(output, code, value, limit)

\* The code of another contract, which is cached in its account on the way.
DeployFromSourceContractHook(source, value, limit) ==
    LET code == GetCode(output, source)
        cached == SetCode(output, source, code)
    IN  /\ Running("deployFromSourceContract")
        /\ IF code # NoCode THEN CreateNewContract(cached, code, value, limit)
           ELSE /\ Fault(cached, metering, Charged, instance)
                /\ UNCHANGED <<calls, before, result, outputStack, codeUpdates, meteringVars,
                               runtimeVars, storageVars, bigIntVars, blockchainVars>>

\* SetStorage under the address of the storage context.
StorageStoreHook(value) ==
    LET old == GetStorage(output, address)
        stored == SetCell(output, address, value)
    IN  /\ Running("storageStore")
        /\ IF runtime.readOnly
           THEN wasm' = Charged /\ UNCHANGED output
           ELSE /\ wasm' = UseGas(Charged, instance, StorageGas(old, value))
                /\ output' = [stored EXCEPT
                       !.refund = AddUint64(@, StorageRefund(old, value))]
        /\ HookReturns(0)
        /\ UNCHANGED <<outputStack, codeUpdates, meteringVars, runtimeVars,
                       storageVars, bigIntVars, blockchainVars>>

WriteLog(out) == IF runtime.readOnly THEN out ELSE [out EXCEPT !.logs = @ + 1]

WriteLogHook ==
    /\ Running("writeLog")
    /\ wasm' = Charged
    /\ output' = WriteLog(output)
    /\ HookReturns(0)
    /\ UNCHANGED <<outputStack, codeUpdates, meteringVars, runtimeVars,
                   storageVars, bigIntVars, blockchainVars>>

BigIntNewHook ==
    /\ Running("bigIntNew")
    /\ wasm' = Charged
    /\ bigInt' = bigInt + 1
    /\ HookReturns(0)
    /\ UNCHANGED <<outputVars, meteringVars, runtimeVars, storageVars,
                   bigIntStack, blockchainVars>>

\* The contract's function ends with an error: finishing can begin.
Stops(e, out, w) ==
    /\ phase' = "finish" /\ err' = e
    /\ output' = out /\ wasm' = w
    /\ UNCHANGED <<calls, before, result, status, outputStack, codeUpdates,
                   meteringVars, runtimeVars, storageVars, bigIntVars, blockchainVars>>

SignalErrorHook ==
    /\ Running("signalError")
    /\ Stops("ErrSignalError", [output EXCEPT !.returnCode = "UserError"], Charged)

\* External: instructions that do not call the API.
ExecuteInstructions(gas) ==
    /\ phase = "running"
    /\ wasm[instance].used <= wasm[instance].limit
    /\ wasm' = UseGas(wasm, instance, gas)
    /\ UNCHANGED <<phase, err, calls, before, result, status, outputVars, meteringVars,
                   runtimeVars, storageVars, bigIntVars, blockchainVars>>

\* External: the breakpoint that Wasmer's metering sets past the limit.
OutOfGas ==
    /\ phase = "running"
    /\ wasm[instance].used > wasm[instance].limit
    /\ Stops("ErrNotEnoughGas", output, wasm)

\* External: any other trap, and a function that the contract does not export.
Trap == phase = "running" /\ Stops("ErrExecutionFailed", output, wasm)

\* Mutant: the code is installed but not reported.
CacheCode ==
    /\ output' = SetCode(output, runtime.scAddress, runtime.code)
    /\ UNCHANGED codeUpdates

\* output.DeployCode, for the code of the input.
DeployCode ==
    /\ output' = SetCode(output, runtime.scAddress, runtime.code)
    /\ codeUpdates' = codeUpdates \cup {runtime.scAddress}

\* The function returns.  callSCMethod and callInitFunction then check the
\* gas points; a deployment or an upgrade records its code.
Return ==
    LET checked == Last(calls).kind = "top" \/ runtime.function = "upgradeContract"
        overspent == wasm[instance].used > metering.gasForExecution
        failed == checked /\ overspent
    IN  /\ phase = "running"
        /\ phase' = "finish"
        /\ err' = IF failed THEN "ErrNotEnoughGas" ELSE "nil"
        /\ IF runtime.code # NoCode /\ ~failed THEN DeployCode
           ELSE UNCHANGED <<output, codeUpdates>>
        /\ UNCHANGED <<calls, before, result, status, outputStack, meteringVars,
                       runtimeVars, wasm, storageVars, bigIntVars, blockchainVars>>

-----------------------------------------------------------------------------
(* Finishing an execution *)

\* output.GetVMOutput: the books are closed on the active output.
Touched ==
    LET updated == RemoveNonUpdatedCode(output, codeUpdates)
    IN  WithAccount(updated, runtime.scAddress, AccountOf(updated, runtime.scAddress))

ClosedMetering ==
    UpdateSCGasUsed(metering, Touched, runtime.scAddress, PointsUsed(wasm, instance))

ClosedOutput == SetGasUsedToOutputAccounts(ClosedMetering, Touched)

GasRemaining == GasLeft(metering, PointsUsed(wasm, instance))

BooksBalance ==
    /\ NoAccountMissing(ClosedMetering, ClosedOutput)
    /\ CheckGas(ClosedMetering, ClosedOutput, GasRemaining)

\* UpdateGasStateOnFailure, part of CreateVMOutputInCaseOfError.
FailureOutput(out) ==
    WithAccount(out, runtime.scAddress, [AccountOf(out, runtime.scAddress) EXCEPT
        !.gasUsed = AddUint64(@, metering.initialGasProvided)])

\* runtime.PopSetActiveState: the callee's instance is cleaned, unless the
\* callee never replaced its caller's.
PoppedInstances ==
    IF Last(instanceStack) = instance THEN wasm ELSE Clean(wasm, instance)

\* Mutant: the snapshot of the callee stays on the stack.
LeaveCalleeKeepingSnapshot(r) ==
    /\ calls' = Front(calls)
    /\ before' = Front(before)
    /\ bigIntStack' = Front(bigIntStack)
    /\ outputStack' = Front(outputStack)
    /\ meteringStack' = Front(meteringStack)
    /\ runtimeStack' = Front(runtimeStack) /\ runtime' = r
    /\ instanceStack' = Front(instanceStack) /\ instance' = Last(instanceStack)
    /\ UNCHANGED <<snapshots, result>>

\* What every way of finishing a callee pops; r is the caller's runtime.
LeaveCallee(r) ==
    /\ calls' = Front(calls)
    /\ before' = Front(before)
    /\ bigIntStack' = Front(bigIntStack)
    /\ outputStack' = Front(outputStack)
    /\ meteringStack' = Front(meteringStack)
    /\ runtimeStack' = Front(runtimeStack) /\ runtime' = r
    /\ instanceStack' = Front(instanceStack) /\ instance' = Last(instanceStack)
    /\ snapshots' = Front(snapshots)
    /\ UNCHANGED result

\* The end of the API function that made the call, in the caller's contexts.
\* A failed callee faults the caller, except a contract that could not be
\* created or a transfer that could not be executed.
CallReports(failed, out, m, w) ==
    LET call == Last(calls)
        id == Last(instanceStack)
    IN  /\ IF failed /\ call.hook \notin
                {"createContract", "transferValueExecute", "transferESDTExecute"}
           THEN Fault(out, m, w, id)
           ELSE /\ phase' = "running" /\ err' = "nil" /\ wasm' = w
                /\ status' = IF failed THEN 1 ELSE 0
                /\ output' = out
        /\ metering' = m

\* Mutant: the runtime state is popped but not restored.
CalleeRuntime == [runtime EXCEPT !.readOnly = FALSE]

\* The state that the runtime context pops.  Every executeReadOnly clears
\* readOnly when its callee has finished.
CallerRuntime ==
    IF Last(calls).hook = "executeReadOnly"
    THEN [Last(runtimeStack) EXCEPT !.readOnly = FALSE]
    ELSE Last(runtimeStack)

\* Mutant: the chain keeps what the callee did.
KeepChain == UNCHANGED journal

\* blockchain.PopSetActiveState: the chain goes back to the latest snapshot.  That
\* of transferESDTExecute is the one from before its transfer, to which it reverts
\* right afterwards.
RevertToSnapshot == journal' = Last(snapshots)

\* finishExecuteOnDestContext and the rest of ExecuteOnDestContext, when the
\* callee failed or its gas does not add up: the pushed states come back.  A callee
\* that returned with another code than Ok in its output gives back the gas it left.
FinishDestFailed ==
    LET call == Last(calls)
        created == call.hook = "createContract"
        out == Last(outputStack)
        gas == IF err = "nil" /\ BooksBalance THEN GasRemaining ELSE 0
    IN  /\ phase = "finish" /\ Last(calls).kind = "dest"
        /\ err # "nil" \/ output.returnCode # "Ok" \/ ~BooksBalance
        /\ LeaveCallee(CallerRuntime)
        /\ CallReports(TRUE, IF created THEN DeleteOutputAccount(out, call.newAddress) ELSE out,
                       Last(meteringStack),
                       RestoreGas(PoppedInstances, Last(instanceStack), gas))
        /\ codeUpdates' = IF created THEN codeUpdates \ {call.newAddress} ELSE codeUpdates
        /\ bigInt' = Last(bigIntStack)
        /\ address' = Last(addressStack) /\ addressStack' = Front(addressStack)
        /\ RevertToSnapshot

\* ... when the callee succeeded: its output and gas are merged into its
\* caller's, and the gas it left is restored on its caller's instance.
FinishDestOk ==
    LET call == Last(calls)
        merged == CopyOf(MergeVMOutputs(Last(outputStack), ClosedOutput))
        caller == Last(runtimeStack).scAddress
        out == IF call.hook = "createContract"
               THEN WithAccount(merged, caller,
                        [AccountOf(merged, caller) EXCEPT !.nonce = @ + 1])
               ELSE merged
    IN  /\ phase = "finish" /\ Last(calls).kind = "dest"
        /\ err = "nil" /\ output.returnCode = "Ok" /\ BooksBalance
        /\ LeaveCallee(CallerRuntime)
        /\ CallReports(FALSE, out, MergeMetering(ClosedMetering, Last(meteringStack)),
                       RestoreGas(PoppedInstances, Last(instanceStack), GasRemaining))
        /\ bigInt' = Last(bigIntStack)
        /\ address' = Last(addressStack) /\ addressStack' = Front(addressStack)
        /\ UNCHANGED <<codeUpdates, journal>>

\* Mutant: the big integers of a failed callee stay.
FinishSameFailedKeepingBigInts ==
    /\ phase = "finish" /\ Last(calls).kind = "same"
    /\ err # "nil" \/ output.returnCode # "Ok"
    /\ LeaveCallee(CallerRuntime)
    /\ CallReports(TRUE, Last(outputStack), Last(meteringStack), PoppedInstances)
    /\ RevertToSnapshot
    /\ UNCHANGED <<bigInt, codeUpdates, storageVars>>

\* finishExecuteOnSameContext.
FinishSameFailed ==
    /\ phase = "finish" /\ Last(calls).kind = "same"
    /\ err # "nil" \/ output.returnCode # "Ok"
    /\ LeaveCallee(CallerRuntime)
    /\ CallReports(TRUE, Last(outputStack), Last(meteringStack), PoppedInstances)
    /\ bigInt' = Last(bigIntStack)
    /\ RevertToSnapshot
    /\ UNCHANGED <<codeUpdates, storageVars>>

\* When the gas does not add up, no gas is restored but the call succeeds.
FinishSameOk ==
    /\ phase = "finish" /\ Last(calls).kind = "same"
    /\ err = "nil" /\ output.returnCode = "Ok"
    /\ LeaveCallee(CallerRuntime)
    /\ CallReports(FALSE,
            IF BooksBalance THEN ClosedOutput ELSE FailureOutput(ClosedOutput),
            MergeMetering(ClosedMetering, Last(meteringStack)),
            RestoreGas(PoppedInstances, Last(instanceStack),
                       IF BooksBalance THEN GasRemaining ELSE 0))
    /\ UNCHANGED <<bigInt, codeUpdates, journal, storageVars>>

ResolveReturnCodeFromError(e) ==
    CASE e = "ErrSignalError" -> "UserError"
      [] e = "ErrNotEnoughGas" -> "OutOfGas"
      [] e = "ErrContractNotFound" -> "ContractNotFound"
      [] e = "ErrContractInvalid" -> "ContractInvalid"
      [] OTHER -> "ExecutionFailed"

\* The end of the run: the node gets the output, the instance is cleaned.
FinishRun ==
    LET succeeds == err = "nil" /\ BooksBalance
    IN  /\ phase = "finish" /\ Last(calls).kind = "top"
        /\ phase' = "idle" /\ err' = "nil"
        /\ result' = IF succeeds
                     THEN [returnCode |-> output.returnCode, gasRemaining |-> GasRemaining,
                           accounts |-> ClosedOutput.accounts]
                     ELSE [NoResult EXCEPT !.returnCode = ResolveReturnCodeFromError(err)]
        /\ output' = IF succeeds THEN ClosedOutput ELSE FailureOutput(output)
        /\ metering' = IF err = "nil" THEN ClosedMetering ELSE metering
        /\ wasm' = Clean(wasm, instance) /\ instance' = 0
        /\ calls' = <<>>
        /\ UNCHANGED <<status, before, outputStack, codeUpdates, meteringStack, runtime,
                       runtimeStack, instanceStack, storageVars, bigIntVars,
                       blockchainVars>>

-----------------------------------------------------------------------------
(* Specification *)

Init ==
    /\ phase = "idle" /\ err = "nil" /\ calls = <<>> /\ status = 0
    /\ output = NewVMOutput /\ outputStack = <<>> /\ codeUpdates = {}
    /\ metering = InitMetering /\ meteringStack = <<>>
    /\ runtime = InitRuntime /\ runtimeStack = <<>>
    /\ instance = 0 /\ instanceStack = <<>>
    /\ wasm = [i \in InstanceIds \ {0} |-> DeadInstance]
    /\ address = NoAddress /\ addressStack = <<>>
    /\ bigInt = 0 /\ bigIntStack = <<>>
    /\ journal = 0 /\ snapshots = <<>>
    /\ result = NoResult
    /\ before = <<>>

Run ==
    \/ \E dest \in Entrypoints, value \in CallValues, gas \in RunGas :
            RunSmartContractCall(dest, value, gas)
    \/ \E d \in Deployments, value \in CallValues, gas \in RunGas :
            RunCodeDeployment(d[1], d[2], value, gas)

Hook ==
    \/ \E dest \in Recipients, value \in CallValues, limit \in GasLimits, f \in Invocations :
        \/ ExecuteOnDestContextHook(dest, value, limit, f[1], f[2])
        \/ ExecuteOnDestContextByCallerHook(dest, value, limit, f[1], f[2])
        \/ ExecuteOnSameContextHook(dest, value, limit, f[1], f[2])
        \/ TransferValueExecuteHook(dest, value, limit, f[1], f[2])
    \/ \E dest \in Recipients, limit \in GasLimits, f \in Invocations :
        \/ DelegateExecutionHook(dest, limit, f[1], f[2])
        \/ ExecuteReadOnlyHook(dest, limit, f[1], f[2])
        \/ TransferESDTFails(dest, limit, f[1], f[2])
        \/ TransferESDTExecuteHook(dest, limit, f[1], f[2])
    \/ \E dest \in Recipients, hook \in HookNames : SyncCallToOtherShard(hook, dest)
    \/ \E hook \in HookNames : BadArguments(hook) \/ RefuseBuiltinFunction(hook)
    \/ \E dest \in Recipients, limit \in GasLimits :
        \/ BuiltinFunctionFails(dest, limit)
        \/ BuiltinFunctionDone(dest, limit)
        \/ BuiltinFunctionRefused(dest, limit)
        \/ BuiltinFunctionThenCall(dest, limit)
    \/ \E dest \in Recipients, value \in CallValues : TransferValueHook(dest, value)
    \/ \E code \in Code, value \in CallValues, limit \in GasLimits :
            CreateContractHook(code, value, limit)
    \/ \E source \in Recipients, value \in CallValues, limit \in GasLimits :
            DeployFromSourceContractHook(source, value, limit)
    \/ \E value \in Value : StorageStoreHook(value)
    \/ WriteLogHook
    \/ BigIntNewHook
    \/ SignalErrorHook

Wasm ==
    \/ \E gas \in InstructionGas : ExecuteInstructions(gas)
    \/ OutOfGas
    \/ Trap
    \/ Return

Finish ==
    \/ FinishDestFailed
    \/ FinishDestOk
    \/ FinishSameFailed
    \/ FinishSameOk
    \/ FinishRun

Next == Run \/ Execute \/ Hook \/ Wasm \/ Finish

Spec == Init /\ [][Next]_vars

\* A run is one synchronous call: the host and Wasmer never pause in it.  Some
\* step is always enabled, so this is weak fairness of Next, stated without
\* ENABLED.
FairSpec == Spec /\ []<><<Next>>_vars

-----------------------------------------------------------------------------
(* Properties *)

Nested(kinds) == Cardinality({i \in DOMAIN calls : calls[i].kind \in kinds})

\* Every context stack holds exactly one state per call in progress that
\* pushes it: ExecuteOnDestContext pushes all of them, ExecuteOnSameContext
\* all but the storage context, and no path of execution.go pops too few or
\* too many.  Between runs every stack is empty, the two that InitState does
\* not clear included.
StacksAligned ==
    LET dest == Nested({"dest"})
        nested == Nested({"dest", "same"})
    IN  /\ Len(outputStack) = nested /\ Len(meteringStack) = nested
        /\ Len(runtimeStack) = nested /\ Len(instanceStack) = nested
        /\ Len(bigIntStack) = nested /\ Len(snapshots) = nested
        /\ Len(addressStack) = dest

\* A callee has just failed: its frame is gone and its caller was told so.
CalleeFails == Len(calls') < Len(calls) /\ calls' # <<>> /\ status' = 1

\* finishExecuteOnDestContext and finishExecuteOnSameContext, "restore contexts
\* as if the execution didn't happen": every account, log and refund, the
\* caller's gas state, its storage address and big integers, and the chain, are
\* those of the moment of the call.  Only gas points are used up, and an account
\* that was being created is gone.
FailedCallLeavesNoTrace ==
    [][CalleeFails =>
        LET pre == Last(before)
            call == Last(calls)
            accounts == IF call.hook = "createContract"
                        THEN [pre.output.accounts EXCEPT ![call.newAddress] = NoAccount]
                        ELSE pre.output.accounts
        IN  /\ output'.accounts = accounts
            /\ output'.logs = pre.output.logs /\ output'.refund = pre.output.refund
            /\ metering' = pre.metering
            /\ address' = pre.address /\ bigInt' = pre.bigInt
            /\ journal' = pre.journal]_vars

\* Code that the host would run for an account, and that is not the code on the
\* chain, is in codeUpdates: it cannot be dropped from the output as if it had
\* only been cached.  (As long as no constructor calls its creator back: a second
\* creation at the same address that fails would delete the code update.)
InstalledCodeIsReported ==
    phase # "idle" => \A a \in Known(output) :
        LET code == output.accounts[a].code
        IN  code # NoCode /\ (a \in DOMAIN ChainCode => code # ChainCode[a])
                => a \in codeUpdates

\* While contracts run, the chain state holds exactly the built-in functions
\* that the output reports: a failure rolls both back or none.  (In a run without
\* transferESDTExecute, whose record outlives the chain when the execution after the
\* transfer fails, baseOps.go:1258, and without other transfers.)
ChainMatchesOutput ==
    phase = "running" =>
        journal = MapThenSumSet(LAMBDA a : Len(output.accounts[a].transfers), Known(output))

\* SetStorage and WriteLog, "cannot set storage in readonly mode" and "cannot
\* write logs in readonly mode": when executeReadOnly returns, its callee has
\* stored and logged nothing.
ReadOnlyCallWritesNothing ==
    [][Len(calls') < Len(calls) /\ Last(calls).hook = "executeReadOnly" =>
        LET pre == Last(before).output
        IN  /\ output'.logs = pre.logs
            /\ \A a \in Address : AccountOf(output', a).cell = AccountOf(pre, a).cell]_vars

\* The effects of contracts on an account, as nested transactions see them.
Effects(out) == [a \in Address |->
    [delta |-> AccountOf(out, a).delta, cell |-> AccountOf(out, a).cell,
     nonce |-> AccountOf(out, a).nonce, transfers |-> AccountOf(out, a).transfers]]

Transactions == INSTANCE NestedTransactions WITH
    open <- phase # "idle",
    store <- Effects(output),
    saved <- [i \in DOMAIN outputStack |-> Effects(outputStack[i])]

\* The pushing, popping and merging of all the contexts implements nested
\* transactions on the accounts.
ImplementsTransactions == Transactions!Spec

\* Whatever the callee did and however it ended, the caller resumes on its own
\* instance, in its own runtime and under its own storage address, with the
\* gas points of every other instance untouched.
CallerResumesInItsContext ==
    [][Len(calls') < Len(calls) /\ calls' # <<>> =>
        LET pre == Last(before)
        IN  /\ instance' = pre.instance
            /\ [runtime' EXCEPT !.readOnly = pre.runtime.readOnly] = pre.runtime
            /\ address' = pre.address
            /\ \A i \in DOMAIN wasm \ {instance'} : wasm'[i] = pre.wasm[i]]_vars

SumDeltas(out) == MapThenSumSet(LAMBDA a : out.accounts[a].delta, Known(out))

\* No account on the chain has spent more than it had.
Solvent(out) == \A a \in DOMAIN ChainBalance : BalanceOf(out, a) >= 0

\* Value is neither created nor destroyed by any nesting of transfers, calls and
\* failures, and no account spends more than it has: the balance deltas of the
\* output, and of every pushed output, add up to the value that the transaction
\* brought in, and no balance is negative.
ValueConserved ==
    LET brought == (IF runtimeStack = <<>> THEN runtime ELSE runtimeStack[1]).callValue
    IN  phase # "idle" =>
        /\ SumDeltas(output) = brought
        /\ \A i \in DOMAIN outputStack : SumDeltas(outputStack[i]) = brought
        /\ Solvent(output)

\* The gas that the calls in progress could still use, innermost last.
GasLeftOf(i) ==
    IF i = Len(calls) THEN GasLeft(metering, wasm[instance].used)
    ELSE GasLeft(meteringStack[i], wasm[instanceStack[i]].used)

MeteringOf(i) == IF i = Len(calls) THEN metering ELSE meteringStack[i]

\* However calls nest, fail and restore gas, a contract and all the callees in
\* progress below it never have more gas left together than it was provided.
GasNeverCreated ==
    phase = "running" => \A i \in DOMAIN calls :
        MapThenSumSet(GasLeftOf, i .. Len(calls)) <= MeteringOf(i).initialGasProvided

\* The gas of all transfers in the output: what transferValueExecute and
\* transferESDTExecute sent to accounts that this host does not execute.
GasSentAway == MapThenSumSet(LAMBDA a : SumSeq(output.accounts[a].transfers), Known(output))

\* checkGas never rejects a contract that stayed within its gas, as long as no
\* transfer of the run carries gas: the gas used by all accounts and the gas left
\* add up to the gas provided.  (Not so after gas was sent away, by the contract or
\* by a caller of it: transferValueExecute records the gas in the transfer without
\* using it, baseOps.go:1053, and a callee starts with its caller's transfers in
\* its books, output.go:127.)  And whatever was sent away, the gas used by the other
\* accounts is part of what the contract spent.
GasBooksBalance ==
    phase = "finish" /\ err = "nil" /\ wasm[instance].used <= metering.gasForExecution =>
        /\ GasSentAway = 0 => BooksBalance
        /\ MapThenSumSet(LAMBDA a : GasUsedBy(metering.gasUsedByAccounts, a),
                         Address \ {runtime.scAddress})
               <= GasSpentByContract(metering, PointsUsed(wasm, instance))

\* Gas bounds execution: every run ends, whatever the contracts do.
RunsTerminate == phase # "idle" ~> phase = "idle"
=============================================================================
