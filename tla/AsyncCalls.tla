----------------------------- MODULE AsyncCalls -----------------------------
(***************************************************************************)
(* Asynchronous calls (vmhost/hostCore/asyncCall.go): what the host does   *)
(* with the calls of one contract of this shard, the contract itself, from *)
(* the transaction that calls it until the callbacks of the other shards   *)
(* have come in.  There are two kinds of asynchronous calls.  asyncCall    *)
(* ends the contract with a breakpoint and locks gas for its callBack;     *)
(* createAsyncCall collects calls in contexts, which the host processes    *)
(* when the contract has returned, keeping those that leave the shard in   *)
(* protected storage under the hash of the original transaction.           *)
(* BaseOpsAPIImports does not link createAsyncCall (its lines are commented*)
(* out), so in this version only Go code that holds the runtime context    *)
(* reaches the contexts: MaxCalls = 0 is what deployed contracts can do.   *)
(*                                                                         *)
(* The code of contracts and whatever a synchronous call does below the    *)
(* contract are choices: an outcome, the gas that remains and the length   *)
(* of the data it returns.  VMHost.tla models those executions.  Values    *)
(* and arguments are left out.  Calls are numbered as they are created; a  *)
(* context is the calls with its identifier, in that order, and Go's map   *)
(* order is a choice between contexts.                                     *)
(***************************************************************************)
EXTENDS Integers, FiniteSets, Functions, Bags

CONSTANTS
    Local, Remote,          \* destinations with code in this shard; in others
    Contexts,               \* identifiers of async contexts
    Exports,                \* of the contract, of {"callBack", "success"}
    LocalCaller, RemoteCaller,  \* who may have called the contract
    GasProvided,            \* of the transaction
    AsyncCallStep, AsyncCallbackGasLock, CompileGas, StoreGas,
    ProvidedGas,            \* gas that createAsyncCall is given, a set
    DataGas,                \* cost of copying what a destination returns, a set
    IsDynamicGasLockingEnabled,
    MaxCalls                \* bound: calls of createAsyncCall

ASSUME AsyncAssumption ==
    /\ Local \cap Remote = {} /\ LocalCaller \in Local /\ RemoteCaller \in Remote
    /\ {GasProvided, AsyncCallStep, AsyncCallbackGasLock, CompileGas, StoreGas} \subseteq Nat
    /\ ProvidedGas \subseteq Nat /\ DataGas \subseteq Nat
    /\ Exports \subseteq {"callBack", "success"}
    /\ IsDynamicGasLockingEnabled \in BOOLEAN /\ MaxCalls \in Nat

VARIABLES
    exec,      \* the execution of the contract that is under way
    stored,    \* protected storage: the AsyncContextInfo of the transaction
    network,   \* transfers to other shards and callbacks from them
    created,   \* history: calls created
    legacy,    \* history: destinations of asyncCall
    answers,   \* history: callbacks sent to the caller of the contract
    failures   \* history: callback transactions that failed

vars == <<exec, stored, network, created, legacy, answers, failures>>

NoCalls == [id \in {} |-> 0]
NoInfo == [caller |-> RemoteCaller, calls |-> NoCalls]
NoAsyncCall == [dest |-> RemoteCaller, data |-> "none", limit |-> 0, locked |-> 0]
NoOutput == [ok |-> TRUE, remaining |-> 0, data |-> 0]
NoExecution ==
    [pc |-> "none", type |-> "none", caller |-> RemoteCaller, provided |-> 0, left |-> 0,
     info |-> NoAsyncCall, output |-> NoOutput, calls |-> NoCalls, done |-> {},
     saved |-> NoInfo, out |-> EmptyBag]

\* A bag of transfers with one more or one less, and the sum of its weights.
With(bag, m) == bag (+) SetToBag({m})
Without(bag, m) == bag (-) SetToBag({m})
Total(bag, Weight(_)) == SumFunction([m \in BagToSet(bag) |-> bag[m] * Weight(m)])
GasOf(m) == m.limit + m.locked

Call == [context : Contexts, dest : Local \cup Remote,
         provided : ProvidedGas, limit : Nat, status : {"pending", "resolved"}]
AreCalls(calls) == calls \in [DOMAIN calls -> Call] /\ DOMAIN calls \subseteq 1 .. MaxCalls
IsInfo(info) ==
    /\ info \in [caller : {LocalCaller, RemoteCaller}, calls : {info.calls}]
    /\ AreCalls(info.calls)
Transfers == [kind : {"call", "callback", "answer", "storageAnswer"},
              id : 0 .. MaxCalls, dest : Local \cup Remote,
              limit : 0 .. GasProvided, locked : 0 .. GasProvided]
AreTransfers(bag) ==
    IsABag(bag) /\ BagToSet(bag) \subseteq Transfers /\ IsFiniteSet(BagToSet(bag))

Steps == {"none", "run", "async", "callback", "returned", "setup",
          "process", "save", "send", "stack", "commit", "fail"}
AsyncCallInfos == [dest : Local \cup Remote,
                   data : {"none", "bad", "transfer", "builtin", "function"},
                   limit : 0 .. GasProvided, locked : 0 .. GasProvided]
Outputs == [ok : BOOLEAN, remaining : 0 .. GasProvided, data : DataGas \cup {0}]

\* The types of the execution, the storage and the messages.
TypeOK ==
    /\ exec \in [pc : Steps, type : {"none", "direct", "async", "nested", "callback"},
                 caller : Local \cup Remote,
                 provided : 0 .. GasProvided, left : 0 .. GasProvided,
                 info : AsyncCallInfos, output : Outputs, done : SUBSET (1 .. MaxCalls),
                 calls : {exec.calls}, saved : {exec.saved}, out : {exec.out}]
    /\ AreCalls(exec.calls) /\ IsInfo(exec.saved) /\ AreTransfers(exec.out)
    /\ IsInfo(stored) /\ AreTransfers(network)
    /\ created \in 0 .. MaxCalls /\ legacy \subseteq Local \cup Remote
    /\ answers \in Nat /\ failures \in Nat

Init ==
    /\ \E type \in {"direct", "async", "nested"} :
         exec = [NoExecution EXCEPT !.pc = "run", !.type = type, !.left = GasProvided,
                    !.provided = GasProvided,
                    !.caller = IF type = "nested" THEN LocalCaller ELSE RemoteCaller]
    /\ stored = NoInfo /\ network = EmptyBag
    /\ created = 0 /\ legacy = {} /\ answers = 0 /\ failures = 0

-----------------------------------------------------------------------------
(* The contract runs *)

At(pc) == exec.pc = pc
UnchangedButExec == UNCHANGED <<stored, network, created, legacy, answers, failures>>
Goto(pc) == exec' = [exec EXCEPT !.pc = pc]

UseGas ==
    /\ At("run") /\ exec.left > 0
    /\ exec' = [exec EXCEPT !.left = @ - 1]
    /\ UnchangedButExec

\* v1_3_createAsyncCall and AddAsyncContextCall; nothing is charged for it.
CreateAsyncCall(context, dest, gas) ==
    /\ At("run") /\ created < MaxCalls
    /\ created' = created + 1
    /\ exec' = [exec EXCEPT !.calls = [id \in DOMAIN @ \cup {created'} |->
         IF id \in DOMAIN exec.calls THEN exec.calls[id]
         ELSE [context |-> context, dest |-> dest, provided |-> gas, limit |-> 0,
               status |-> "pending"]]]
    /\ UNCHANGED <<stored, network, legacy, answers, failures>>

ComputeGasLockedForAsync ==
    AsyncCallStep + AsyncCallbackGasLock
        + IF IsDynamicGasLockingEnabled THEN CompileGas ELSE 0

ShouldLockGas == "callBack" \in Exports \/ ~IsDynamicGasLockingEnabled

\* v1_3_asyncCall and ExecuteAsyncCall: the step is charged by both, then the
\* gas of the callback is locked.  Too little gas is a breakpoint as well.
AsyncCall(dest, data) ==
    LET locked == IF ShouldLockGas THEN ComputeGasLockedForAsync ELSE 0 IN
    /\ At("run")
    /\ IF exec.left <= 2 * AsyncCallStep + locked
       THEN Goto("fail")
       ELSE LET left == exec.left - 2 * AsyncCallStep - locked IN
            exec' = [exec EXCEPT !.pc = "async", !.left = left,
                       !.info = [dest |-> dest, data |-> data, limit |-> left,
                                 locked |-> locked]]
    /\ legacy' = legacy \cup {dest}
    /\ UNCHANGED <<stored, network, created, answers, failures>>

\* upgradeContract asks for the gas of two steps and the lock, then makes the
\* same call; when that fails the contract goes on as if nothing had happened.
UpgradeContract(dest, gasLimit) ==
    LET locked == IF ShouldLockGas THEN ComputeGasLockedForAsync ELSE 0 IN
    /\ At("run")
    /\ IF gasLimit < 2 * AsyncCallStep + AsyncCallbackGasLock THEN Goto("fail")
       ELSE IF exec.left <= AsyncCallStep THEN UNCHANGED exec
       ELSE IF exec.left - AsyncCallStep <= locked
            THEN exec' = [exec EXCEPT !.left = @ - AsyncCallStep]
       ELSE LET left == exec.left - AsyncCallStep - locked IN
            exec' = [exec EXCEPT !.pc = "async", !.left = left,
                       !.info = [dest |-> dest, data |-> "function", limit |-> left,
                                 locked |-> locked]]
    /\ legacy' = legacy \cup {dest}
    /\ UNCHANGED <<stored, network, created, answers, failures>>

\* The contract returns, or fails.
Return == At("run") /\ Goto("returned") /\ UnchangedButExec
SignalError == At("run") /\ Goto("fail") /\ UnchangedButExec

-----------------------------------------------------------------------------
(* handleAsyncCallBreakpoint *)

determineAsyncCallExecutionMode ==
    LET dest == exec.info.dest  data == exec.info.data IN
    CASE data = "bad" -> "error"
      [] data \in {"transfer", "builtin"} /\ dest \in Local ->
            IF data = "transfer" /\ exec.type \in {"async", "nested"} /\ dest = exec.caller
            THEN "ESDTTransferOnCallBack" ELSE "AsyncBuiltinFuncIntraShard"
      [] data \in {"transfer", "builtin"} -> "AsyncBuiltinFuncCrossShard"
      [] dest \in Local -> "SyncCall"
      [] OTHER -> "AsyncUnknown"

\* The outcomes of ExecuteOnDestContext.  One failure comes before the
\* destination was charged, from the transfer of the value.
ExecuteOnDestContext(provided) ==
    {[ok |-> TRUE, remaining |-> r, spent |-> provided - r, data |-> d] :
        r \in {0, provided}, d \in DataGas}
      \cup {[ok |-> FALSE, remaining |-> 0, spent |-> s, data |-> d] :
        s \in {0, provided}, d \in DataGas}

\* createDestinationContractCallInput provides all the gas that is left, whatever
\* the limit of the call.
DestinationGas == exec.left

\* Mutant: the locked gas stays behind.
CallTransferUnlocked(info, limit) ==
    [kind |-> "call", id |-> 0, dest |-> info.dest, limit |-> limit, locked |-> 0]

\* The transfer to the other shard carries the gas that is locked.
CallTransfer(info, limit) ==
    [kind |-> "call", id |-> 0, dest |-> info.dest, limit |-> limit,
     locked |-> info.locked]

\* AsyncUnknown: sendAsyncCallToDestination gives the destination the gas
\* limit and uses all that is left.
SendAsyncCallToDestination ==
    /\ At("async") /\ determineAsyncCallExecutionMode = "AsyncUnknown"
    /\ exec' = [exec EXCEPT !.pc = "returned", !.left = 0, !.info = NoAsyncCall,
         !.out = With(@, CallTransfer(exec.info, exec.info.limit))]
    /\ UnchangedButExec

\* The breakpoint returns an error: bad data, or a transfer that fails.
FailBreakpoint ==
    /\ At("async") /\ determineAsyncCallExecutionMode \in {"error", "AsyncUnknown"}
    /\ Goto("fail") /\ UnchangedButExec

\* AsyncBuiltinFuncCrossShard: the builtin function runs here, and passes
\* gas, the locked gas too, to the other shard.
ExecuteBuiltinCrossShard ==
    /\ At("async") /\ determineAsyncCallExecutionMode = "AsyncBuiltinFuncCrossShard"
    /\ \E o \in ExecuteOnDestContext(DestinationGas) :
         IF ~o.ok THEN Goto("fail")
         ELSE \E limit \in {0, o.spent} :
              exec' = [exec EXCEPT !.pc = "returned", !.left = o.remaining,
                !.info = NoAsyncCall,
                !.out = With(@, CallTransfer(exec.info, limit))]
    /\ UnchangedButExec

\* ESDTTransferOnCallBack: there will be no callback, the gas is unlocked.
RestoreLockedGas ==
    /\ At("async") /\ determineAsyncCallExecutionMode = "ESDTTransferOnCallBack"
    /\ exec' = [exec EXCEPT !.pc = "returned", !.left = @ + exec.info.locked,
                            !.info = NoAsyncCall]
    /\ UnchangedButExec

\* executeSyncDestinationCall
ExecuteSyncDestinationCall ==
    /\ At("async")
    /\ determineAsyncCallExecutionMode \in {"SyncCall", "AsyncBuiltinFuncIntraShard"}
    /\ \E o \in ExecuteOnDestContext(DestinationGas) :
         exec' = [exec EXCEPT !.pc = "callback", !.left = @ - o.spent,
           !.output = [ok |-> o.ok, remaining |-> o.remaining, data |-> o.data]]
    /\ UnchangedButExec

\* The gas limit of the callback in createCallbackContractCallInput, if there
\* is more than the step and the copying cost.
CallbackGasLimit(output, locked) == output.remaining + locked - (AsyncCallStep + output.data)
HasCallbackGas(output, locked) == output.remaining + locked > AsyncCallStep + output.data

\* Mutant: the locked gas is given to the callback but stays with the caller.
ExecuteSyncCallbackCallUncharged ==
    /\ At("callback")
    /\ IF ~HasCallbackGas(exec.output, exec.info.locked)
       THEN exec' = [exec EXCEPT !.pc = "returned", !.info = NoAsyncCall,
                                 !.output = NoOutput]
       ELSE LET limit == CallbackGasLimit(exec.output, exec.info.locked) IN
            \E o \in ExecuteOnDestContext(limit) :
              exec' = [exec EXCEPT !.pc = "returned", !.info = NoAsyncCall,
                !.output = NoOutput, !.left = @ + exec.info.locked + o.remaining]
    /\ UnchangedButExec

\* executeSyncCallbackCall: the gas is unlocked on the instance of the caller
\* before the callback is charged.  What the callback does, and whether it
\* runs, is no error of the contract (processCallbackVMOutput).
ExecuteSyncCallbackCall ==
    /\ At("callback")
    /\ IF ~HasCallbackGas(exec.output, exec.info.locked)
       THEN exec' = [exec EXCEPT !.pc = "returned", !.info = NoAsyncCall,
                                 !.output = NoOutput]
       ELSE LET limit == CallbackGasLimit(exec.output, exec.info.locked) IN
            \E o \in ExecuteOnDestContext(limit) :
              exec' = [exec EXCEPT !.pc = "returned", !.info = NoAsyncCall,
                !.output = NoOutput, !.left = @ + exec.info.locked - o.spent]
    /\ UnchangedButExec

-----------------------------------------------------------------------------
(* callSCMethod after the function has returned, and processAsyncInfo *)

AfterFunction ==
    /\ At("returned")
    /\ Goto(IF exec.type = "callback" THEN "stack"
            ELSE IF DOMAIN exec.calls = {} THEN "send" ELSE "setup")
    /\ UnchangedButExec

\* setupAsyncCallsGas; a sum that overflows is more than the gas left, and
\* an error as well.
GasNeeded(calls) == SumFunction([i \in DOMAIN calls |-> calls[i].provided])
WithZeroGas(calls) == Cardinality({i \in DOMAIN calls : calls[i].provided = 0})
HasGasFor(calls, left) ==
    /\ GasNeeded(calls) <= left
    /\ WithZeroGas(calls) > 0 => left > GasNeeded(calls)

GasShare(calls, left) == (left - GasNeeded(calls)) \div WithZeroGas(calls)

setupAsyncCallsGas(calls, left) ==
    [i \in DOMAIN calls |-> [calls[i] EXCEPT
        !.limit = IF calls[i].provided = 0 THEN GasShare(calls, left) ELSE calls[i].provided]]

SetupGas ==
    /\ At("setup")
    /\ exec' = IF HasGasFor(exec.calls, exec.left)
               THEN [exec EXCEPT !.pc = "process", !.calls = setupAsyncCallsGas(@, exec.left)]
               ELSE [exec EXCEPT !.pc = "fail"]
    /\ UnchangedButExec

canExecuteSynchronously(dest) == dest \in Local

\* The calls that may be next: the first of each context.
NextCalls ==
    {i \in DOMAIN exec.calls :
        /\ i \notin exec.done /\ canExecuteSynchronously(exec.calls[i].dest)
        /\ \A j \in DOMAIN exec.calls :
             j < i /\ exec.calls[j].context = exec.calls[i].context =>
                \/ j \in exec.done \/ ~canExecuteSynchronously(exec.calls[j].dest)}

\* processAsyncCall and callbackAsync.  A destination that failed returns no
\* async info, and getPendingAsyncCalls panics on it; one that made calls of
\* its own stays pending.
ProcessAsyncCall(i) ==
    /\ At("process") /\ i \in NextCalls
    /\ \E o \in ExecuteOnDestContext(DestinationGas), pending \in BOOLEAN :
         IF ~o.ok THEN Goto("fail")
         ELSE IF pending
         THEN exec' = [exec EXCEPT !.done = @ \cup {i}, !.left = @ - o.spent]
         ELSE IF ~HasCallbackGas(o, 0) THEN Goto("fail")
         ELSE \E cb \in ExecuteOnDestContext(CallbackGasLimit(o, 0)) :
              exec' = [exec EXCEPT !.done = @ \cup {i},
                         !.calls[i].status = "resolved",
                         !.left = @ - o.spent - cb.spent]
    /\ UnchangedButExec

getPendingAsyncCalls(calls) ==
    [i \in {j \in DOMAIN calls : calls[j].status = "pending"} |-> calls[i]]

\* All calls of this shard have been made.
ProcessedAll ==
    /\ At("process") /\ NextCalls = {}
    /\ exec' = [exec EXCEPT !.calls = getPendingAsyncCalls(@), !.done = {},
         !.pc = IF DOMAIN getPendingAsyncCalls(exec.calls) = {} THEN "send" ELSE "save"]
    /\ UnchangedButExec

\* Mutant: the pending calls are sent and not saved.
SavedNothing(calls) == exec.saved

\* savePendingAsyncCalls: the storage update of the contract.
savePendingAsyncCalls(calls) == [caller |-> exec.caller, calls |-> calls]

\* The pending calls are saved, which costs gas, and the second round of
\* setupAsyncCallsGas follows.
SavePending ==
    /\ At("save")
    /\ LET left == IF exec.left > StoreGas THEN exec.left - StoreGas ELSE 0
       IN exec' = IF HasGasFor(exec.calls, left)
                  THEN [exec EXCEPT !.pc = "send", !.left = left,
                          !.saved = savePendingAsyncCalls(exec.calls),
                          !.calls = setupAsyncCallsGas(@, left)]
                  ELSE [exec EXCEPT !.pc = "fail"]
    /\ UnchangedButExec

Unsent == {i \in DOMAIN exec.calls :
             i \notin exec.done /\ ~canExecuteSynchronously(exec.calls[i].dest)}

PendingTransfer(id, call) ==
    [kind |-> "call", id |-> id, dest |-> call.dest, limit |-> call.limit, locked |-> 0]

\* sendAsyncCallToDestination for each pending call that leaves the shard;
\* the first one uses the gas that is left.
SendPending(i) ==
    /\ At("send") /\ i \in Unsent
    /\ \/ Goto("fail")
       \/ exec' = [exec EXCEPT !.left = 0, !.done = @ \cup {i},
            !.out = With(@, PendingTransfer(i, exec.calls[i]))]
    /\ UnchangedButExec

\* Mutant: the caller is answered although calls are pending.
MustAnswerAlways == exec.type = "async"

\* A call from another shard is answered when nothing is pending.
MustAnswer == exec.type = "async" /\ DOMAIN exec.calls = {}

\* sendCallbackToCurrentCaller
CallbackToCurrentCaller ==
    [kind |-> "answer", id |-> 0, dest |-> exec.caller, limit |-> exec.left, locked |-> 0]

\* The caller gets the gas that is left, or there is nothing to send.
SentAll ==
    /\ At("send") /\ Unsent = {}
    /\ IF MustAnswer
       THEN \/ Goto("fail")
            \/ exec' = [exec EXCEPT !.pc = "commit", !.left = 0,
                 !.out = With(@, CallbackToCurrentCaller)]
       ELSE Goto("commit")
    /\ UnchangedButExec

-----------------------------------------------------------------------------
(* Callbacks from other shards *)

\* The other shard has executed the call (external): a callback comes back
\* with none or all of its gas, and with the locked gas.
ExecuteElsewhere(m) ==
    /\ m.kind = "call"
    /\ \E limit \in {0, m.limit} :
         network' = With(Without(network, m),
                         [m EXCEPT !.kind = "callback", !.limit = limit])
    /\ UNCHANGED <<exec, stored, created, legacy, answers, failures>>

CallsTo(dest) == {i \in DOMAIN stored.calls : stored.calls[i].dest = dest}

\* unlockGasIfAsyncCallback
unlockGasIfAsyncCallback(m) == m.limit + m.locked

\* The transaction of a callback: getFunctionByCallType takes the success
\* callback of a stored call to the sender, whatever the callback reports,
\* and a function that is missing is called all the same; otherwise it takes
\* callBack, and without that the callback stack is processed at once.
ReceiveCallback(m) ==
    /\ At("none") /\ m.kind = "callback"
    /\ LET custom == CallsTo(m.dest) # {}
           gas == unlockGasIfAsyncCallback(m)
           function == IF custom THEN "success" ELSE "callBack"
       IN exec' = [NoExecution EXCEPT !.type = "callback", !.caller = m.dest,
            !.provided = gas, !.saved = stored,
            !.left = IF gas < CompileGas THEN 0 ELSE gas - CompileGas,
            !.pc = IF gas < CompileGas THEN "fail"
                   ELSE IF function \in Exports THEN "run"
                   ELSE IF custom THEN "fail" ELSE "stack"]
    /\ network' = Without(network, m)
    /\ UNCHANGED <<stored, created, legacy, answers, failures>>

\* The calls of the context of call i.
ContextOf(i) == {j \in DOMAIN stored.calls : stored.calls[j].context = stored.calls[i].context}

\* Mutant: the last callback does not clear the pending calls.
NoCallback(i) == FALSE

\* Whether no context is left when call i is removed.  The shorter list is
\* not put back into its context: only the last call of a context takes it
\* away.
LastCallback(i) == ContextOf(i) = {i} /\ DOMAIN stored.calls = {i}

\* sendStorageCallbackToDestination
StorageCallback ==
    [kind |-> "storageAnswer", id |-> 0, dest |-> stored.caller, limit |-> exec.left,
     locked |-> 0]

\* processCallbackStack.  While contexts are left it returns and nothing is
\* saved.  Otherwise the storage is cleared and the caller is called back: in
\* another shard by a transfer of the gas that is left, which is not used
\* up; in this shard through a nil pointer.
ProcessCallbackStack ==
    /\ At("stack")
    /\ IF DOMAIN stored.calls = {} THEN Goto("commit")
       ELSE IF CallsTo(exec.caller) = {} THEN Goto("fail")
       ELSE \E i \in CallsTo(exec.caller) :
            IF ~LastCallback(i) THEN Goto("commit")
            ELSE IF canExecuteSynchronously(stored.caller) THEN Goto("fail")
            ELSE \/ Goto("fail")
                 \/ exec' = [exec EXCEPT !.pc = "commit", !.saved = NoInfo,
                      !.out = With(@, StorageCallback)]
    /\ UnchangedButExec

-----------------------------------------------------------------------------
(* The end of an execution *)

\* checkGas: what is used, transferred and left is what was provided.
checkGas == Total(exec.out, GasOf) + exec.left <= exec.provided

Answers(m) == IF m.kind \in {"answer", "storageAnswer"} THEN 1 ELSE 0

\* GetVMOutput: the transfers leave and the storage is written.
Commit ==
    /\ At("commit") /\ checkGas
    /\ stored' = exec.saved
    /\ network' = network (+) exec.out
    /\ answers' = answers + Total(exec.out, Answers)
    /\ exec' = NoExecution
    /\ UNCHANGED <<created, legacy, failures>>

\* CreateVMOutputInCaseOfError, or a panic: nothing of the execution is kept.
Fail ==
    /\ At("fail") \/ (At("commit") /\ ~checkGas)
    /\ exec' = NoExecution
    /\ failures' = IF exec.type = "callback" THEN failures + 1 ELSE failures
    /\ UNCHANGED <<stored, network, created, legacy, answers>>

ContractStep ==
    \/ UseGas \/ Return \/ SignalError
    \/ \E x \in Contexts, d \in Local \cup Remote, g \in ProvidedGas : CreateAsyncCall(x, d, g)
    \/ \E d \in Local \cup Remote, data \in {"bad", "transfer", "builtin", "function"} :
         AsyncCall(d, data)
    \/ \E d \in Local \cup Remote, g \in {0, GasProvided} : UpgradeContract(d, g)

HostStep ==
    \/ SendAsyncCallToDestination \/ FailBreakpoint \/ ExecuteBuiltinCrossShard
    \/ RestoreLockedGas \/ ExecuteSyncDestinationCall \/ ExecuteSyncCallbackCall
    \/ AfterFunction \/ SetupGas \/ \E i \in 1 .. MaxCalls : ProcessAsyncCall(i)
    \/ ProcessedAll \/ SavePending \/ \E i \in 1 .. MaxCalls : SendPending(i)
    \/ SentAll \/ ProcessCallbackStack \/ Commit \/ Fail

NetworkStep == \E m \in BagToSet(network) : ExecuteElsewhere(m) \/ ReceiveCallback(m)

Next == ContractStep \/ HostStep \/ NetworkStep

Spec == Init /\ [][Next]_vars

\* A contract runs out of gas or returns, the host goes on, and the other
\* shards execute what they are sent.
FairSpec == Spec /\ WF_vars(Next)

-----------------------------------------------------------------------------
(* Properties *)

InFlight == {m \in BagToSet(network) : m.kind \in {"call", "callback"}}
CountedGas(m) == IF m.kind = "storageAnswer" THEN 0 ELSE GasOf(m)
GasInFlight == Total(network, CountedGas)
GasOut == Total(exec.out, CountedGas)

\* Locking, unlocking, splitting and sending gas creates none: what the shards
\* hold together is at most what the transaction brought, and no subtraction
\* takes more than there is (TypeOK).  The answer that
\* sendStorageCallbackToDestination sends is not counted: it carries gas that
\* also stays with the contract.
GasNeverCreated ==
    /\ TypeOK
    /\ exec.left + exec.info.locked + GasOut + GasInFlight <= GasProvided

\* The gas locked by asyncCall comes back with its callback and pays for
\* compiling the contract again, the step and the callback (comments of
\* ComputeGasLockedForAsync).
LockedGasPaysForCallback ==
    \A m \in InFlight : m.id = 0 /\ ShouldLockGas =>
        GasOf(m) >= (IF IsDynamicGasLockingEnabled THEN CompileGas ELSE 0)
                        + AsyncCallStep + AsyncCallbackGasLock

\* A call of createAsyncCall that is on its way is in the storage of the
\* contract, so that its callback is expected and finds its function.
\* Callbacks are matched by the address that sends them: a contract that also
\* uses asyncCall with the same destination is out of the property.
CallsInFlightAreExpected ==
    \A m \in InFlight : m.id > 0 =>
        \/ m.id \in DOMAIN stored.calls
        \/ m.dest \in legacy

\* The caller in the other shard is called back once at most, and only when
\* no call of createAsyncCall is on its way (asyncCall excepted, as above).
AnsweredOnceAndLast ==
    /\ answers <= 1
    /\ answers > 0 => \A m \in InFlight : m.id = 0 \/ m.dest \in legacy

\* A single pending call to another shard is resolved in the end, unless the
\* transaction of a callback failed.
SinglePendingCallResolves ==
    (\E i \in 1 .. MaxCalls : /\ DOMAIN stored.calls = {i}
                              /\ ~canExecuteSynchronously(stored.calls[i].dest))
        ~> DOMAIN stored.calls = {} \/ failures > 0
=============================================================================
