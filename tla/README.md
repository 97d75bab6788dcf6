# Verification of the Wasm VM host

TLA+ models of this virtual machine (`src/`), the TLC runs that check them on
small instances and the TLAPS proofs of what holds for every instance.
`PROJECT.json` lists components, runs, mutants, the map from definitions to
source lines, findings, hazards and theorems.

## The system

The VM runs smart contracts for a blockchain node.  A transaction becomes one
*run* (`RunSmartContractCall`, `RunSmartContractCreate`); the contract executes
in a Wasmer instance and calls back into the host through API functions
(`vmhooks`), some of which execute other contracts, in the same run and to any
depth.  A contract may also call contracts of other shards, whose answers come
back in later transactions.  The host lives in the node's process, or in a
process of its own that talks to the node through pipes (`ipc/`).

| component | state | operations | correct when |
|---|---|---|---|
| host (`hostCore/host.go`, `execution.go`) | the contexts below | run, `ExecuteOnDestContext`, `ExecuteOnSameContext`, `CreateNewContract`, upgrades, built-in functions | a failed callee leaves no trace, a successful one loses nothing, every run ends |
| host lock and schedules (`hostCore/host.go`) | `mutExecution`, `gasSchedule`; Wasmer's opcode costs, of the process | run, `GasScheduleChange`, `TryCatch` | no schedule changes under an execution, the lock is released |
| asynchronous calls (`hostCore/asyncCall.go`) | `asyncCallInfo`, contexts, pending calls in protected storage | call, execute or send, callback, save, answer the caller | locked gas pays for the callback and is unlocked once, a call on its way is expected, the caller is answered once and last |
| output (`contexts/output.go`) | accounts with deltas, storage, code, transfers; logs, refund; `codeUpdates`; stack | transfer, merge, censor, push, pop, close | value is conserved, nobody overdraws, new code is reported |
| metering (`contexts/metering.go`) | gas provided, initial cost, gas for execution, gas used by account; stack | use, restore, lock, unlock, deduct, merge, `checkGas` | gas is never created, the books balance |
| runtime (`contexts/runtime.go`) | input, `readOnly`, breakpoint; state stack; current, stacked and warm instance; memory | start, clean, push, pop, `MemLoad`, `MemStore` | no instance is cleaned while needed, none leaked, no more than the limit; memory holds what was stored |
| storage (`contexts/storage.go`) | current address, protection switch; stack; cache in the output | `SetStorage`, `SetProtectedStorage`, `GetStorage`, `GetStorageFromAddress` | writes go to the right account, none in read-only mode; reads are current; protected keys are protected |
| blockchain (`contexts/blockchain.go`) | snapshots of the chain | snapshot, revert, lookups | chain and output roll back together |
| bigInt (`contexts/bigint.go`) | values by handle; stack | `Put`, `GetOne`, push, pop | handles are fresh, callees do not touch them |
| API functions (`vmhooks/`, `cryptoapi/`) | none of their own | all functions that the import tables link | arguments out of bounds fault, a fault leaves no trace, every call costs gas |
| imports and validation (`contexts/validator.go`, `reservedFunctions.go`) | table of linked names | verify exports, memory, imports | what is not linked or reserved is refused |
| overflow math (`math/overflow.go`) | none | saturating arithmetic | overflow is detected exactly |
| gas schedule (`config/`, `wasmer/opcodes.go`) | the decoded costs | decode, check for zeroes, fill, make the opcode array | every opcode and function has a cost |
| IPC (`ipc/nodepart`, `ipc/vmpart`, `ipc/common`) | pipes, nonces of the dialogue, child process, driver's schedule and mutex | request, hook call, response, restart, close | answers belong to their requests, a crash or a hang is noticed |
| Wasmer bridge, marshalling, scenario runner, servers, mocks | | | (see *Not modelled*) |

Contexts interact by direct calls and shared state.  Every context has its own
active state and its own stack; the functions of `execution.go` push and pop a
*selection* of them.  The hard behaviour is therefore in sequences: calls that
nest, fail half-way, re-enter, and resume callers in states several functions
have rewritten.  Failures come from the contract (trap, gas, `signalError`),
from the host (funds, permissions, invalid code, instance limit) and from the
chain (built-in functions).  Concurrency is found at the edges: goroutines of
the node that change schedules or use one driver, the VM process that crashes
or hangs, other shards that answer in any order.  `PROJECT.json` lists the
hazards at their lines.

## Modules

| module | models | notes |
|---|---|---|
| `OverflowMath` | `math/overflow.go` | words of a width given by `MaxUint` |
| `OutputContext`, `MeteringContext`, `StorageContext` | `contexts/output.go`, `metering.go`, `storage.go` | operators on a context's state, applied by `VMHost` in the order of the code |
| `VMHost` | `host.go`, `execution.go`, the API functions that call, create and pay, all stacks | the composition: one action per API function and per step of a call |
| `NestedTransactions` | no code: the promise | abstract specification that `VMHost` implements |
| `WasmerInstances` | instances of `contexts/runtime.go`, warm ones included | |
| `AsyncCalls` | `asyncCall.go`, gas locking of `metering.go`, the callback part of `execution.go` | one contract, its shard and the network |
| `VMImports` | the import tables, `validator.go`, `reservedFunctions.go` | |
| `VMHooks` | the other API functions: memory, big and small integers, storage, queries, crypto | extends `OverflowMath` and `VMImports` |
| `GasSchedule` | `config/`, `wasmer/opcodes.go` | |
| `HostSchedules` | the lock and schedules of the hosts of a process | extends `GasSchedule` |
| `IPCMessages` | `ipc/common`, `vmpart/blockchainGateway.go`, repliers of `nodepart` and `vmpart` | sets of kinds, creators, gateway functions and repliers |
| `IPC` | `nodepart/vmDriver.go`, `nodepart/part.go`, `vmpart/part.go`, messengers | extends `IPCMessages` |
| `MC*` | small instances for TLC | |
| `BasicTheorems` | lemmas | stacks that are pushed and popped; sums over finite sets |
| `VMHost_proofs`, `VMHostValue_proofs` | proofs about `VMHost` | frames and what callers saved; value and the refinement |
| `AsyncCalls_proofs`, `HostSchedules_proofs`, `IPC_proofs`, `VMHooks_proofs`, `WasmerInstances_proofs` | proofs about the module of that name | the one on `VMHooks` has `OverflowMath` as well |

### How VMHost follows the code

The running contract is the environment: whenever `phase = "running"` it may
call any API function it imports with any arguments of the small sets, execute
instructions, trap, run out of gas or return.  `calls` is the Go call stack:
one frame per run (`top`), per `ExecuteOnDestContext` (`dest`) and per
`ExecuteOnSameContext` (`same`).  A nested call takes three steps:

1. the API function charges its cost, builds the input and pushes contexts
   (`ExecuteOnDestContextHook`, ... : phase becomes `execute`);
2. `host.execute` charges the caller and starts the callee's instance
   (`ExecuteCall`, `ExecuteUpgrade`, `RefuseInit`: phase `running`, or `finish`
   with an error);
3. when the callee has stopped (phase `finish`), `FinishDestOk`,
   `FinishDestFailed`, `FinishSameOk` or `FinishSameFailed` closes the books,
   pops or merges every context and reports to the caller, whose API function
   returns or faults it.

The execution of Go code between two points where the contract has control is
sequential, so splitting it there adds no behaviour and hides none.  `before`
is auxiliary: it remembers the contexts at each call so that properties can
speak of them.

A Wasmer instance is its points used, its limit and whether it is live.  The
chain is constant except for `journal`, the number of changes made by built-in
functions in the run, which snapshots save and revert.  Logs and big integers
are counted (`VMHooks` has their values).  Of the account storage one cell is
kept.  Every activation flag is on.

Transfers of tokens (`transferESDTExecute`, `transferESDTNFTExecute`) are one
action that covers `ExecuteESDTTransfer` and `TransferESDT`: the gas of the
built-in function is used on the caller and also subtracted from the gas for
the call, and the chain is changed before the callee is entered.
`TransferESDTFails` is the refusal by the built-in function, or a transfer
already made when the gas turns out to be too little.

### How WasmerInstances follows the code

It has the same stack with nothing else on it, so that warm instances, the
cache of compiled code and the failures inside `StartWasmerInstance` fit into
one small model whose depth is not limited by gas.  An instance is a member of
`Handle`; `live` are those not yet cleaned.  A contract stands for its code, by whose
hash compiled code is kept.  `useWarmInstance` is a parameter of the host: chosen at
the start, it never changes.

### How AsyncCalls follows the code

`exec` is the execution of the contract that is under way, with a program
counter for the parts of `doRunSmartContractCall` that matter here: the
function (`AsyncCall`, `UpgradeContract`, `CreateAsyncCall`, `UseGas`), the
breakpoint (`ExecuteSyncDestinationCall` and `ExecuteSyncCallbackCall`, or
`SendAsyncCallToDestination`, or `ExecuteBuiltinCrossShard`), then
`processAsyncInfo` (`SetupGas`, `ProcessAsyncCall`, `SavePending`,
`SendPending`), the answer to the caller, and the end (`Commit`, where the
output transfers leave for the network, or `Fail`, where nothing does).
`network` is a bag: transfers arrive in any order; so are the output transfers of
an execution.  Calls are kept by their number.  `ExecuteElsewhere` is
another shard (external); `ReceiveCallback` starts an execution of type
`callback`, which `ProcessCallbackStack` and `StorageCallback` complete.  What a
synchronous callee does is a choice of outcome, gas left and cost of its data.

### How VMHooks follows the code

The execution is one record, `vm`: memory, gas used and limit, integers with
their stack, the storage cache, return data, logs, status.  An API function is
an operator from the record before to the record after, and `Call(name, after)`
the step that makes it one action.  The order of charges, loads, stores and
returns is that of the code, since the order decides what a fault leaves
behind.  `frames` are the callers with what the host keeps for them; `chain` is
what a built-in function stored under protected keys.  The chain's other answers
are `Env`; whether a signature is valid, or a token exists, is a choice.
Bytes have four values and words two bytes, so that signed, unsigned and
overlong encodings, and offsets beyond the memory, all occur.  A contract must
pass `VerifiedContract` first.

### How GasSchedule and HostSchedules follow the code

A field of the opcode section is the number of its opcode: the struct, the
array and the table of opcodes list them in the same order.  Values are decoded
into 32 bits and checked for zero afterwards, as the code does.  In
`HostSchedules` each goroutine has a program counter; `sync.RWMutex` is
`readers`, `writer` and `waiting`, and a waiting writer keeps new readers out.
`GasScheduleChange` takes one step per assignment (`StoreSchedule`,
`SetOpcodeCosts`, `SetGasSchedule`), because the opcode costs belong to the
process and another host may come in between.

### How IPC follows the code

`Lock` .. `RestartVMIfNecessary` .. `SendContractRequest` .. the loop
(`ReceiveHookCallRequestOrContractResponse`, `Timeout`) are the driver and the
node part of a caller that holds the mutex; `ReceiveNodeRequest`,
`SendHookCallRequest`, `ReceiveHookCallResponse`, `SendContractResponse` are
the VM part.  Kinds of messages keep their order, since `IsHookCall`,
`IsDiagnose` and the factory depend on it.  Hooks are looked up in the tables
of `IPCMessages`: message, creator, replier and what the gateway makes of a
failed call.  Faults are a crash at any point, a start that fails at each of
its stages, and `Close` by somebody else, which takes no mutex.  A VM that never
answers needs no action: no fairness is assumed of it.

## Runs

The `VMHost` runs use two contracts on the chain (`alice`, owner of the
upgradeable `bob`; costs 2 and 1), addresses for two creations, one for a
deployment, an account in another shard, and words of six bits.  Each run
chooses the API functions, values and gas that matter to its question.  Gas is
the bound on everything else: with 7 to 9 units and a call limit of 4 there are
calls three deep, callees that run out of gas at each point, and several calls
in sequence.  No state constraint is used.

| run | question | bounds |
|---|---|---|
| `calls` | is no gas created, do the books of gas and value balance, does the caller resume in its own contexts, does the host implement nested transactions; with value, tokens and gas sent to this and another shard | `RunGas` 8, `GasLimits` 4, `MaxWasmerInstances` 2; one storage value whose cost passes the gas limit and the signed counter |
| `create` | deployments by transactions, by contracts and from a source contract, constructors that call and create; does every run end | `RunGas` 9, `MaxNonce` 1 |
| `same` | calls on the same context, delegated, read-only, in the name of the caller's caller, mixed with the others | `RunGas` 7 |
| `protocol` | do the chain and the output roll back together around built-in functions that succeed, fail or refuse; indirect upgrades, allowed or not, with valid or invalid code | `RunGas` 9, no token transfers |
| `instances` | the instances of a host with warm instances and of one without | 5 handles, 3 contracts, limit 4 |
| `async` | gas, pending calls and answers of both kinds of asynchronous calls | `GasProvided` 6, `MaxCalls` 2, one local and two remote destinations |
| `ipc` | two goroutines, a driver and a VM that calls hooks, crashes and hangs | `MaxOperations` 3, `MaxHookCalls` 2, `MaxFaults` 1, `MaxLoopTime` 2, one hook of each sort |
| `schedule` | two hosts, three goroutines, executions that panic; a valid, an incomplete, a too large and a wrapped schedule | `MaxChanges` 2; 32 bits scaled to 8 |
| `hooks` | any API function with arguments in and out of bounds, across nested calls; all pairs of words for the arithmetic | words of four bits, bytes of two, `PageSize` 3, `MaxPages` 2, `MaxDepth` 1; handles −1, 0 and 1; gas limits up to 4, and on both sides of the largest signed word |
| `readonly_nested`, `instances_warm_required`, `protected_reads` | three statements of the source that the code does not keep (see *Findings*) | |

Why the bounds are enough: three operations let a request meet the remains of
an earlier one and a schedule change in between; one fault can fall at every
step of every operation; two calls are the least for which pending sets,
contexts and orders differ; two changes on two hosts interleave in every order.
In `hooks` a contract that imports everything makes two API calls, and
contracts with few imports make up to five: every function is called with every
argument, and the functions that share state are called in sequence.

Deadlock is checked for `VMHost` and `WasmerInstances`: the host can always take
a step, and between runs it accepts the next transaction.  The other four have
`CHECK_DEADLOCK FALSE`: operations and changes are bounded by name and an
execution ends, after which nothing more happens.  That nobody waits for ever is
what their liveness properties say, and in `hooks` `GasBoundsTheCalls`.

*Fairness.*

- `create`: `[]<><<Next>>_vars`, weak fairness of `Next` since some step is always
  enabled.  A run is one synchronous Go call into Wasmer; nothing is assumed
  about which step happens: the contract may call, store and fail forever, and
  only gas stops it.
- `async`: `WF_vars(Next)`: the host goes on, contracts return or run out of gas,
  and other shards execute the transfers they receive.
- `schedule`: weak fairness of each goroutine that is inside a call of the host.
  Goroutines are scheduled, contracts run out of gas, and `RWMutex` lets a writer
  in after the readers it met; changes are finite, so weak fairness is enough.
- `ipc`: weak fairness of each caller: goroutines are scheduled and deadlines
  expire.  Nothing is assumed of the VM process, which may hang.

Each property has a mutant in `PROJECT.json`, an operator of the same module
with a plausible bug, which makes the run fail.

## Findings

1. `readonly_nested`: `executeReadOnly` ends with `SetReadOnly(false)`, whatever
   the value was, so a read-only callee that makes a read-only call may write
   afterwards.
2. `instances_warm_required`: with warm instances, an instance that is on the
   stack twice can be cleaned while the outer call still needs it.
3. `protected_reads`: "Values stored under protected keys must always be retrieved
   from the node, not from the cached StorageUpdates" (`storage.go:138`).
   `GetStorageFromAddress` does so; `GetStorage`, behind `storageLoad`,
   `storageLoadLength` and the loads of integers, reads the cache, which is stale
   after a built-in function changed the value.  `ReadsAreCurrent` is about the
   other reads: of ordinary keys, and through `GetStorageFromAddress`.

## Observations

What the models show and no line of the repository forbids; the models follow
the code.

*Nested execution.*  The deduction for an indirect deployment replaces the
creator's own initial cost (`metering.go:496`).  A constructor that calls its
creator back lets it create a second contract at the same address
(`execution.go:480`).  The books of a callee are closed over an output that holds
its caller's transfers, so `checkGas` rejects a callee that stayed within its gas
when the caller sent gas away before (`output.go:127`).  `codeUpdates` is not
saved with the output, so an upgrade below a failed callee stays in it.  A failed
creation deletes the account of the new contract from the restored output
(`execution.go:490`): value that was sent to this address before is lost, and so
is what an outer creation at the same address had installed, `codeUpdates`
included.  The gas
that `transferValueExecute` sends away is not used on the sender
(`baseOps.go:1053`), so `checkGas` may reject it.  A built-in function that returns
no error but another code than `Ok` puts that code into the output of the contract,
which goes on and fails at its end, unless a later call replaces the code
(`execution.go:924`).  The record of a token transfer stays in the output when the
execution after it fails.
`callSCMethodIndirect` does not check the final gas of a callee, and finishing
relies on saturation.  `mergeVMOutputs` replaces the refund instead of adding.

*Instances.*  When another contract becomes the warm one, nobody cleans the
previous one (`runtime.go:233`); `NoInstanceLeaked` is checked without warm ones.

*Schedules.*  An invalid schedule stays in `host.gasSchedule`, though the log says
that the old one remains (`host.go:286`); compiled code and warm instances keep
the costs they were compiled with; `mutExecution`, held for reading, does not
exclude two executions, which the node must avoid (`NodeRunsNothingOn`,
external); `GetGasScheduleMap` takes no lock.

*Asynchronous calls.*  `createAsyncCall` is not linked in this version, so
`MaxCalls = 0` is what deployed contracts can do, and `saveCrossShardCalls` is
never called.  With two or more pending calls the saved set never shrinks
(`asyncCall.go:711`).  A failed synchronous call of `createAsyncCall` leads to a
nil dereference, recovered as a failed run (`asyncCall.go:526`).
`sendStorageCallbackToDestination` sends gas without using it.  Callbacks are
matched by the sender's address only, and those of other shards are always
taken as successful.  `asyncCall` charges `AsyncCallStep` twice.

*IPC.*  The factory has no creator for `GasScheduleChangeRequest`: the VM panics
on it, and the restart makes good for it, because the driver stored the schedule.
The range of `IsHookCall` leaves out `ProcessBuiltInFunction`,
`ClearCompiledCodes`, `GetSnapshot`, `RevertToSnapshot` and `IsInterfaceNil`: a
call of those hooks is taken for a bad message although the node has repliers.  Time
that is exactly over leaves the loop without a deadline.  `IsClosed` does not see
zombies.  The driver keeps its ends of the VM's pipes open.  After a failed
`command.Start` the next `IsClosed` panics.  The gateway's `RevertToSnapshot`
drops its error.

*API functions.*  `CustomStorageKey` appends the prefix, so lock keys do not
start with it.  `bigIntGet...Argument` and `getReturnData...` do not check for
negative indexes: a panic, hence a failed run.  `getESDTBalance` and
`getESDTTokenData` dereference a nil token.  Stores without a sign drop it;
`setStorageLock` stores the absolute value of a timestamp.

## Proofs

All theorems hold for every value of the constants that the named `ASSUME`s of
the modules allow: any sets of contracts, callers, hosts and schedules, any
limits and widths, any depth of calls.  Three restrictions are in the statements:
`~useWarmInstance` (in the properties on cold instances), `~Creating` (two theorems
on value, below) and `RunGas \subseteq 0 .. MaxInt` (the theorem on gas, below).

### Frames (`VMHost_proofs`)

`FramesTheorem` is `Spec => []FramesInv`, and four properties of the runs follow
from it.

- `StacksAligned` counts frames by kind and is not inductive: a step of phase
  `finish` pops stacks according to the kind of the *last* frame.  `AlignedInv`
  adds that the first frame, and only it, is a `top` frame, that frames exist
  exactly when the host is not idle, and that the stacks are sequences.
- `TypeOK` needs `ActiveInv` (what is pushed may become the active runtime and
  storage address, so its type is that of an execution and not of an idle host)
  and `InstancesInv`: the waiting instances are distinct and live, no other but
  the active one is live, and the active instance is the caller's only until the
  callee has started.  Otherwise popping an instance could clean one that a
  caller needs.
- `CallerResumesInItsContext` and `FailedCallLeavesNoTrace` compare a state with
  the one at the call, any number of steps and nested calls earlier.
  `CallersInv` carries that over: for every caller `k`, the `k`-th entry of each
  stack is what `before[k]` remembers (`SavedState`), the instances that were
  there at the call are as they were unless a callee started them
  (`SavedInstances`), and the storage address is on its stack, which only `dest`
  calls push, or is shared with the callee (`SavedAddress`).

There is one lemma per kind of step (within a contract, entering, leaving), one
per operator on a context, and one step per action.

### Value and gas (`VMHostValue_proofs`)

`MergeOutputAccounts` takes the callee's balance delta, the larger nonce and the
transfers past those already known.  This is right only because the callee's
output began as a copy of the caller's and has evolved since: nonces only grow,
storage updates stay, the old transfers come first (`Later`, `Evolves`).
`ValueInv` says this of every pair of outputs on the stack, and that each is
solvent; every action is shown to be one of six kinds of step (`Within`, `Enters`,
`Aborts`, `Commits`, `Starts`, `Ends`) that preserve it.

- `ValueTheorem`, `NoOverdraftTheorem`: with or without creations, no account of
  the chain spends more than it has, in the active output and in every output
  that a failure may restore.
- `ValueConservedTheorem`: the deltas of a run add up to the value that the
  transaction brought.
- `ImplementsTransactionsTheorem`: the six kinds are the steps `Write`, `Begin`,
  `Abort`, `Commit`, `Start`, `End` of `NestedTransactions`, or stutter.

The last two assume `~Creating`: no contract imports `createContract` or
`deployFromSourceContract`.  Without it they are false of the code, since the
account that a failed creation deletes may hold value (see *Observations*); the
run that checks them has no creation either.  Sums over accounts are computed by
a recursion on sets; `BasicTheorems` shows with a set of least cardinality, instead
of an induction, that the order of the elements does not matter and that
changing one or two summands changes the sum accordingly.

`GasNeverCreatedTheorem` is about a sum over the calls in progress, and gas moves
between two of its terms at every call and return.  `GasInv` says per frame what
the sum needs: an execution may use no more than it was given (`Books`), a callee
is given no more than its caller was, and once the callee has started the caller's
instance has used all of what it gave.  The last is not true between the call and
the start of the callee, and is lost again when the callee ends and its rest is
restored, so every action is one of five kinds of step on gas (`GasStays`,
`GasEnters`, `GasBegins`, `GasLeaves`, `GasStarts`).  Each frame then has left at
most the difference between what it was given and what it gave, and `SumOfTail`
bounds the sum from the innermost call outwards.  The gas of a transaction must
fit in a signed number: `SetPointsUsed` caps what an instance has used at the
largest `int64`, so a contract with more gas could give away more than is taken.
TLC checked `GasInv` in all runs of `VMHost` before it was proved.

### Asynchronous calls (`AsyncCalls_proofs`)

Four theorems, for any gas prices and gas provided, any destinations, contexts
and number of calls, rest on one inductive invariant, `IndInv`.  TLC checked its
parts before they were proved.

- `GasNeverCreatedTheorem` needs `GasInv`.  The first call of `createAsyncCall`
  that is sent uses up all the gas that is left, and thereby pays for the others
  (`sendAsyncCallToDestination`): from then on the bound must be on the gas
  *owed*, a sum over the calls not yet sent, and `setupAsyncCallsGas` must not
  have promised more than there was.
- `LockedGasPaysForCallbackTheorem` needs `LegacyInv`: a call of `asyncCall`, on
  either way, carries the locked gas, and its destination is a known one.
- `CallsInFlightAreExpectedTheorem` needs `FirstInv` (the execution of the
  transaction finds nothing stored and sends only what it saves), `SentInv`
  (each call once), `CallbackInv` (a callback resolves a stored call that is no
  longer in flight, and clears the storage only when this is the only one
  stored) and `ExpectedInv` (callbacks are matched by address, so what is stored
  must have the destination of the call in flight).
- `AnsweredOnceAndLastTheorem` adds `AnswerInv`: whoever answers leaves nothing
  stored.

The gas in a bag of transfers is a sum of weights; adding or removing a transfer
changes it by one term.  Actions are grouped by what they leave alone: those that
send nothing, those that send, and those of the network and the end.

### API functions (`VMHooks_proofs`)

The theorems hold for every contract, all arguments and answers of the node, any
page size and number of pages, any depth of calls and any width of a word.  Every
operator of `VMHooks` takes an execution to an execution, so there is one
relation for what has happened since an API function was called in `s`:
`Quiet(s, t)`, nothing stored, returned or logged so far, and `After(s, t)`, which
allows traces when `t` has not failed.  Each operator has a lemma (a charge, a
load, a fault, a store to memory keep `Quiet`; storing, returning and logging end
it), and each API function follows from its definition.

`IndInv` says that the execution and every caller are `Sound` (protection on, only
locks under protected keys, memory of whole pages, finitely many big integers) and
that what the host keeps of a caller's integers is what it had.

- `MemoryAccessesAgreeTheorem` showed that the largest memory must be strictly
  smaller than the largest `int`: an end that `AddInt` saturates must lie outside
  the memory.  `int` has 64 bits, a memory at most 4 GiB.
- `BigIntsAreKeptTheorem` needs a pigeonhole argument: `Put` looks for a free
  handle from the number of integers on, and one of the next `n + 1` is free.
- `FaultsLeaveNoTraceTheorem` is `After`; `ProtectedKeysHoldLocksTheorem` is part
  of `Sound`, and needs it of the callers, whose storage a failure restores.
- `ProtectedReadsAreCurrentTheorem` is one half of `ReadsAreCurrent`.
- `SaturationExactTheorem`: for every width, the guards of the additions,
  subtractions and the unsigned multiplication hold exactly when the result does
  not fit (`GuardsExact` in the run `hooks`, for four bits).

### The other modules

- `WasmerInstances_proofs`: from `ColdInv`, no instance is cleaned while needed
  (`ColdInstancesLive`), none leaked and no more than `MaxWasmerInstances` live, at
  any depth, on a host without warm instances.  The invariant says why comparing
  with the top of the stack is enough: the waiting instances are distinct, and the
  current one is waiting only if it is the top and its callee has not started.  The
  bound also needs the depth of the stack, and that a stack of distinct instances
  has as many elements as entries.  `WarmInstanceLiveTheorem` is about both sorts of
  host.
- `HostSchedules_proofs`, for any number of hosts, goroutines, schedules and
  changes: only valid schedules come into use (`TypeOKTheorem`, with
  `WantedInv`); no schedule changes under an execution (`ScheduleFixedTheorem`,
  from `LockInv`: who reads, who writes, and never both); the opcode costs follow
  the schedules (`OpcodeCostsFollowTheorem`).  The last is not inductive, because
  hosts overtake each other between setting the opcode costs and the metering
  context; `CostsInv` names the host that set the costs last, which has their
  schedule or has it in hand.  `OpcodesAreMeteredTheorem` rests on the tables: the
  array has every opcode, every opcode has a field, and a field is checked after
  it was cut to its width.
- `IPC_proofs`, for any number of callers, operations, hook calls and faults:
  one message is under way at most, dialogues start fresh, answers are right,
  compiled code is current.  None is inductive alone.  `IndInv` has the mutex
  (`MutexInv`), what is reset outside the node's loop (`PartInv`), the schedule a
  running VM has (`ScheduleInv`) and, as the core, who may write to the pipes
  next: a running VM is at rest, or in one of five stages of a dialogue with the
  caller in the loop (`DialogueInv`), each of which fixes both nonces and the
  contents of both pipes.  `PipeInv` adds what a process that has ended may have
  left in the pipe.
- `BasicTheorems`: facts on pushing, popping and counting, proved from the
  definition of sequences, and on sums; cited by name.

### Only model-checked

- Liveness (`RunsTerminate`, `LockIsReleased` and the others): the prover has no
  fairness.
- `GasBooksBalance`: that `checkGas` accepts every contract within its gas is
  stated for runs in which no transfer has carried gas away.  After one the code
  rejects some: the contract that sent gas with `transferValueExecute`, and a callee
  whose caller sent gas before (see *Observations*).  The run `calls` sends gas both
  ways and checks there what is left: the gas used by the other accounts is
  part of what the contract spent.
- `ChainMatchesOutput` counts the transfers of the output, which in the run
  `protocol`, and not for all constants, only built-in functions make.
- `InstalledCodeIsReported` is no invariant for all constants: when a contract
  can be called back by the one it creates, a creation at the same address that
  fails deletes the code update of the outer one.  In the run `create` no
  constructor can call its creator back.
- `ReadOnlyCallWritesNothing` does not hold for nested read-only calls
  (finding 1).
- Of `VMHooks`: `LoadsReturnTheLastStore`, since the conversions between integers
  and bytes are folds over digits, and a result for every input needs induction;
  `TypeOK` and `GasBoundsTheCalls` (of calls with gas below the largest signed word,
  at which `SetPointsUsed` stops the points), because the length of an integer is
  defined up to `MaxIntLen` bytes, which is enough for the integers of the run only.

## Not modelled

- Panics inside nested calls of `VMHost` (`HostSchedules` has their effect on the
  lock); `SelfDestruct`; tracing of gas; parsing of the transaction's arguments.
- A built-in function as the call of `transferESDTExecute`; tokens themselves:
  a token transfer is a change of the chain, a log and a recorded transfer.
- `setAsyncContextCallback`: no code calls a context's callback.
- IPC: the capacity of pipes, the initialisation pipe, logging, marshalling and
  the bytes on the wire (encoders of libraries and field-by-field copies).
- Wasmer itself and the algorithms of the crypto API: native or third-party code,
  environment of the models.
- Scenario runner, vmserver, command lines, mocks, test helpers and fuzzers: test
  tooling without state of the VM's own.

## Plan

1. done: the contexts, nested execution, instances, overflow math; alignment of
   the stacks and the theorems on instances.
2. done: asynchronous calls, IPC with faults, gas schedules and the lock, the
   remaining API functions, imports; liveness; the theorems on schedules.
3. done: frames of `VMHost`; value and the refinement; `IPC`; the
   arithmetic for every width.
4. done: the safety properties of `AsyncCalls`; the API functions; gas in nested
   calls.
5. Open: models of panics inside nested calls and of the capacity of pipes.
