-------------------------------- MODULE IPC ---------------------------------
(***************************************************************************)
(* The node and the VM process of ipc/: the driver of nodepart/vmDriver.go *)
(* starts the process, serialises the operations of its callers with a     *)
(* mutex, restarts the process when it is closed and kills it after a      *)
(* critical error; nodepart/part.go sends a request and then serves the    *)
(* hook calls of the VM until the answer comes or the time is over;        *)
(* vmpart/part.go reads requests, executes them and answers.               *)
(*                                                                         *)
(* The two pipes are sequences of messages.  A process that has exited is  *)
(* a zombie until the driver waits for it, and the driver holds both ends  *)
(* of the pipes, so that a dead process is noticed only by the time limit. *)
(* Ids of operations are history: no code reads them.  The capacity of a   *)
(* pipe is not modelled.                                                   *)
(***************************************************************************)
EXTENDS Integers, IPCMessages

CONSTANTS
    Caller,             \* goroutines of the node that use the driver
    Nobody,             \* nobody holds the mutex
    Operations,         \* the requests that callers make, of NodeRequests
    Hooks,              \* the hooks that contracts call, of DOMAIN Gateway
    MaxLoopTime,        \* of nodepart.Config, in units of time
    MaxOperations,      \* bound: operations of a behaviour
    MaxHookCalls,       \* bound: hook calls of a contract execution
    MaxFaults           \* bound: crashes, failed starts, Close by others

ASSUME IPCAssumption ==
    /\ Nobody \notin Caller
    /\ Operations \subseteq NodeRequests
    /\ Hooks \subseteq DOMAIN Gateway
    /\ MaxLoopTime \in Nat \ {0}
    /\ MaxOperations \in Nat /\ MaxHookCalls \in Nat /\ MaxFaults \in Nat

VARIABLES
    pc,            \* of each caller: idle, lock, restart, send, loop
    operation,     \* of each caller: what it asks for
    result,        \* of each caller: how its last operation ended
    operationsMutex,
    gasSchedule,   \* driver.vmArguments.GasSchedule
    lastSchedule,  \* history: the schedule of the last GasScheduleChange
    process,       \* running, zombie, reaped, or nil when it did not start
    part,          \* the node part: its nonce, and whether its pipes are open
    remaining,     \* remainingMilliseconds of the loop
    toVM, toNode,  \* the pipes
    vm,            \* the VM part
    compiled,      \* the node's cache: schedules under which code was compiled
    issued,        \* history: operations so far
    faults         \* history: faults so far

driverVars == <<operationsMutex, gasSchedule, lastSchedule>>
callerVars == <<pc, operation, result>>
vars == <<pc, operation, result, operationsMutex, gasSchedule,
          lastSchedule, process, part,
          remaining, toVM, toNode, vm, compiled, issued, faults>>

Message(kind, nonce) ==
    [kind |-> kind, nonce |-> nonce, id |-> 0, outcome |-> "none",
     schedule |-> 0, silent |-> FALSE]

\* Messenger.Send numbers the messages of a dialogue, in both directions.
NextNonce(nonce) == nonce + 1

\* Messenger.Receive refuses any other nonce.
InSequence(m, nonce) == m.nonce = nonce + 1

Kinds ==
    {Request(n) : n \in Range(MessageKinds)} \cup {Response(n) : n \in Range(MessageKinds)}

Messages ==
    [kind : Kinds,
     nonce : 1 .. 2 * MaxHookCalls + 3, id : 0 .. MaxOperations,
     outcome : {"none", "result", "nil", "error"},
     schedule : 0 .. MaxOperations, silent : BOOLEAN]

\* A VM part whose loop has begun (Reset), with a host of the given schedule.
NewVMPart(schedule) ==
    [pc |-> "receive", nonce |-> 0, request |-> "Stop", id |-> 0, hook |-> "",
     calls |-> 0, silent |-> FALSE, schedule |-> schedule]

NoOperation == [kind |-> "Stop", id |-> 0, schedule |-> 0]
NoResult == [status |-> "none", asked |-> 0, answered |-> 0, expected |-> 0,
             schedule |-> 0, silent |-> FALSE]

\* How operations end: with an answer, with a critical error, or with a
\* panic of the caller.
Outcomes == {"none", "ok", "cannot start", "cannot send", "time expired",
             "invalid nonce", "bad message", "panic"}

VMParts ==
    [pc : {"receive", "run", "hook"}, nonce : 0 .. 2 * MaxHookCalls + 3,
     request : NodeRequests \cup {"Stop"}, id : 0 .. MaxOperations,
     hook : Hooks \cup {""}, calls : 0 .. MaxHookCalls,
     silent : BOOLEAN, schedule : 0 .. MaxOperations]

OperationRecords ==
    [kind : NodeRequests \cup {"Stop"}, id : 0 .. MaxOperations,
     schedule : 0 .. MaxOperations]

Results ==
    [status : Outcomes, asked : 0 .. MaxOperations, answered : 0 .. MaxOperations,
     expected : 0 .. MaxOperations, schedule : 0 .. MaxOperations, silent : BOOLEAN]

\* The types of the variables of the driver, the two parts and the pipes.
TypeOK ==
    /\ pc \in [Caller -> {"idle", "lock", "restart", "send", "loop"}]
    /\ operation \in [Caller -> OperationRecords] /\ result \in [Caller -> Results]
    /\ operationsMutex \in Caller \cup {Nobody}
    /\ gasSchedule \in 0 .. MaxOperations /\ lastSchedule \in 0 .. MaxOperations
    /\ process \in {"running", "zombie", "reaped", "nil"}
    /\ part \in [nonce : 0 .. 2 * MaxHookCalls + 3, open : BOOLEAN]
    /\ remaining \in 0 .. MaxLoopTime
    /\ toVM \in Seq(Messages) /\ toNode \in Seq(Messages)
    /\ vm \in VMParts
    /\ compiled \subseteq 0 .. MaxOperations
    /\ issued \in 0 .. MaxOperations /\ faults \in 0 .. MaxFaults

\* NewVMDriver has started the process.
Init ==
    /\ pc = [c \in Caller |-> "idle"]
    /\ operation = [c \in Caller |-> NoOperation]
    /\ result = [c \in Caller |-> NoResult]
    /\ operationsMutex = Nobody /\ gasSchedule = 0 /\ lastSchedule = 0
    /\ process = "running" /\ part = [nonce |-> 0, open |-> TRUE]
    /\ remaining = 0 /\ toVM = <<>> /\ toNode = <<>>
    /\ vm = NewVMPart(0)
    /\ compiled = {} /\ issued = 0 /\ faults = 0

-----------------------------------------------------------------------------
(* The driver: an operation under the mutex *)

\* A caller asks for an operation; a gas schedule is known by the operation
\* that brings it.
Call(c, kind) ==
    /\ pc[c] = "idle" /\ issued < MaxOperations
    /\ issued' = issued + 1
    /\ operation' = [operation EXCEPT ![c] =
            [kind |-> kind, id |-> issued + 1,
             schedule |-> IF kind = "GasScheduleChange" THEN issued + 1 ELSE 0]]
    /\ pc' = [pc EXCEPT ![c] = "lock"]
    /\ UNCHANGED <<result, driverVars, process, part, remaining, toVM, toNode,
                   vm, compiled, faults>>

\* The schedule that operation op brings, if it is a GasScheduleChange.
ScheduleOf(op, old) == IF op.kind = "GasScheduleChange" THEN op.schedule ELSE old

\* Mutants: nobody waits for the mutex; the schedule reaches the VM only in
\* the request.
LockFreely(c) ==
    /\ pc[c] = "lock"
    /\ operationsMutex' = c
    /\ gasSchedule' = ScheduleOf(operation[c], gasSchedule)
    /\ lastSchedule' = ScheduleOf(operation[c], lastSchedule)
    /\ pc' = [pc EXCEPT ![c] = "restart"]
    /\ UNCHANGED <<operation, result, process, part, remaining, toVM, toNode,
                   vm, compiled, issued, faults>>
LockWithoutStoring(c) ==
    /\ pc[c] = "lock" /\ operationsMutex = Nobody
    /\ operationsMutex' = c
    /\ lastSchedule' = ScheduleOf(operation[c], lastSchedule)
    /\ pc' = [pc EXCEPT ![c] = "restart"]
    /\ UNCHANGED <<operation, result, gasSchedule, process, part, remaining,
                   toVM, toNode, vm, compiled, issued, faults>>

\* Lock; GasScheduleChange stores the schedule for the next start.
Lock(c) ==
    /\ pc[c] = "lock" /\ operationsMutex = Nobody
    /\ operationsMutex' = c
    /\ gasSchedule' = ScheduleOf(operation[c], gasSchedule)
    /\ lastSchedule' = ScheduleOf(operation[c], lastSchedule)
    /\ pc' = [pc EXCEPT ![c] = "restart"]
    /\ UNCHANGED <<operation, result, process, part, remaining, toVM, toNode,
                   vm, compiled, issued, faults>>

\* The operation of c ends: the deferred unlock.
EndWith(c, res) ==
    /\ pc' = [pc EXCEPT ![c] = "idle"]
    /\ operation' = [operation EXCEPT ![c] = NoOperation]
    /\ result' = [result EXCEPT ![c] = res]
    /\ operationsMutex' = Nobody

Failure(c, status) ==
    [NoResult EXCEPT !.status = status, !.asked = operation[c].id]

\* A signal 0 reaches a zombie too: only a process that the driver has
\* waited for is closed.
IsClosed == process = "reaped"

\* Mutant: the compiled code of the old schedule stays.
StartVMWithOldCode ==
    /\ process' = "running"
    /\ toVM' = <<>> /\ toNode' = <<>>
    /\ vm' = NewVMPart(gasSchedule)
    /\ part' = [nonce |-> 0, open |-> TRUE]
    /\ UNCHANGED compiled

\* resetPipeStreams, the arguments with the schedule, ClearCompiledCodes and
\* a new node part.
StartVM ==
    /\ process' = "running"
    /\ toVM' = <<>> /\ toNode' = <<>>
    /\ vm' = NewVMPart(gasSchedule)
    /\ compiled' = {}
    /\ part' = [nonce |-> 0, open |-> TRUE]

RestartVMIfNecessary(c) ==
    /\ pc[c] = "restart" /\ process # "nil"
    /\ IF IsClosed THEN StartVM
       ELSE UNCHANGED <<process, toVM, toNode, vm, compiled, part>>
    /\ pc' = [pc EXCEPT ![c] = "send"]
    /\ UNCHANGED <<operation, result, driverVars, remaining, issued, faults>>

\* startVM fails: before there is a new command, in command.Start, in
\* SendVMArguments, or in the loop of the logs.
StartVMFails(c) ==
    /\ pc[c] = "restart" /\ IsClosed /\ faults < MaxFaults
    /\ faults' = faults + 1
    /\ \/ /\ process' \in {"reaped", "nil"}
          /\ part' = [part EXCEPT !.open = FALSE]
          /\ toVM' = <<>> /\ toNode' = <<>>
          /\ UNCHANGED <<vm, compiled>>
       \/ /\ process' = "running"
          /\ part' = [part EXCEPT !.open = FALSE]
          /\ toVM' = <<>> /\ toNode' = <<>>
          /\ vm' = NewVMPart(gasSchedule)
          /\ UNCHANGED compiled
       \/ StartVM
    /\ EndWith(c, Failure(c, "cannot start"))
    /\ UNCHANGED <<gasSchedule, lastSchedule, remaining, issued>>

\* IsClosed reads the pid of a command that has no process.
PanicInIsClosed(c) ==
    /\ pc[c] = "restart" /\ process = "nil"
    /\ EndWith(c, Failure(c, "panic"))
    /\ UNCHANGED <<gasSchedule, lastSchedule, process, part, remaining, toVM, toNode, vm,
                   compiled, issued, faults>>

\* Close: Kill and Wait.  The process of a driver that is closed already
\* cannot be killed.
Close == process' = IF process \in {"running", "zombie"} THEN "reaped" ELSE process

-----------------------------------------------------------------------------
(* The node part *)

\* Messenger.Send and the deadline of the loop; a closed pipe is an error.
SendContractRequest(c) ==
    /\ pc[c] = "send"
    /\ IF part.open
       THEN /\ part' = [part EXCEPT !.nonce = NextNonce(@)]
            /\ toVM' = Append(toVM,
                 [Message(Request(operation[c].kind), NextNonce(part.nonce))
                    EXCEPT !.id = operation[c].id])
            /\ remaining' = MaxLoopTime
            /\ pc' = [pc EXCEPT ![c] = "loop"]
            /\ UNCHANGED <<operation, result, operationsMutex, process>>
       ELSE /\ Close /\ EndWith(c, Failure(c, "cannot send"))
            /\ UNCHANGED <<part, toVM, remaining>>
    /\ UNCHANGED <<gasSchedule, lastSchedule, toNode, vm, compiled, issued, faults>>

\* The loop ends with an error: ResetDialogue, then Close by the driver.
EndLoopWithError(c, status) ==
    /\ part' = [part EXCEPT !.nonce = 0]
    /\ Close
    /\ EndWith(c, Failure(c, status))
    /\ remaining' = 0
    /\ UNCHANGED <<toVM, compiled>>

\* Mutant: the nonce goes on into the next dialogue.
EndLoopWithoutReset(c, m) ==
    /\ EndWith(c, [status |-> "ok", asked |-> operation[c].id,
                   answered |-> m.id, expected |-> lastSchedule,
                   schedule |-> m.schedule, silent |-> m.silent])
    /\ remaining' = 0
    /\ UNCHANGED <<part, process, toVM, compiled>>

\* The loop ends with the answer m: ResetDialogue.
EndLoopWithAnswer(c, m) ==
    /\ part' = [part EXCEPT !.nonce = 0]
    /\ EndWith(c, [status |-> "ok", asked |-> operation[c].id,
                   answered |-> m.id, expected |-> lastSchedule,
                   schedule |-> m.schedule, silent |-> m.silent])
    /\ remaining' = 0
    /\ UNCHANGED <<process, toVM, compiled>>

\* The repliers of the cache of compiled code change it.
ServeCompiledCode(m) ==
    compiled' = IF m.kind = Request("SaveCompiledCode") THEN compiled \cup {m.schedule}
                ELSE IF m.kind = Request("ClearCompiledCodes") THEN {}
                ELSE compiled

\* replyToHookCallRequest
ReplyToHookCall(m, left) ==
    /\ \E r \in Replies(m.kind[1]) :
         toVM' = Append(toVM, [Message(r.kind, NextNonce(m.nonce)) EXCEPT !.outcome = r.outcome])
    /\ ServeCompiledCode(m)
    /\ part' = [part EXCEPT !.nonce = NextNonce(m.nonce)]
    /\ remaining' = left
    /\ UNCHANGED <<callerVars, operationsMutex, process>>

\* remainingMilliseconds < 0
Expires(left) == left < 0

\* An iteration of the loop: a message is received after some time.
ReceiveHookCallRequestOrContractResponse(c) ==
    /\ pc[c] = "loop" /\ toNode # <<>>
    /\ toNode' = Tail(toNode)
    /\ LET m == Head(toNode) IN
       IF ~InSequence(m, part.nonce) THEN EndLoopWithError(c, "invalid nonce")
       ELSE \E duration \in 0 .. remaining + 1 :
            IF Expires(remaining - duration) THEN EndLoopWithError(c, "time expired")
            ELSE IF IsHookCall(m.kind) THEN ReplyToHookCall(m, remaining - duration)
            ELSE IF IsFinalResponse(m.kind) THEN EndLoopWithAnswer(c, m)
            ELSE EndLoopWithError(c, "bad message")
    /\ UNCHANGED <<gasSchedule, lastSchedule, vm, issued, faults>>

\* Mutant: a deadline is set only for the first message.
TimeoutOnce(c) ==
    /\ pc[c] = "loop" /\ remaining = MaxLoopTime
    /\ EndLoopWithError(c, "time expired")
    /\ UNCHANGED <<gasSchedule, lastSchedule, toNode, vm, issued, faults>>

\* Receive sets a deadline when there is time left; with none left it waits
\* for as long as it takes.
Timeout(c) ==
    /\ pc[c] = "loop" /\ remaining > 0
    /\ EndLoopWithError(c, "time expired")
    /\ UNCHANGED <<gasSchedule, lastSchedule, toNode, vm, issued, faults>>

-----------------------------------------------------------------------------
(* The VM part *)

VMIs(state) == process = "running" /\ vm.pc = state

nodeVars == <<callerVars, driverVars, part, remaining, compiled, issued, faults>>

\* The process ends: its loop returned or a replier panicked.
Exit == process' = "zombie" /\ UNCHANGED <<vm, toNode>>

\* ReceiveNodeRequest.  A request that the factory read into another type
\* makes its replier panic.
ReceiveNodeRequest ==
    /\ VMIs("receive") /\ toVM # <<>>
    /\ toVM' = Tail(toVM)
    /\ LET m == Head(toVM) IN
       IF \/ ~InSequence(m, vm.nonce) \/ IsStopRequest(m.kind)
          \/ m.kind \in VMRepliers /\ ~HasItsOwnType(m.kind)
       THEN Exit
       ELSE /\ vm' = [vm EXCEPT !.pc = "run", !.nonce = m.nonce, !.id = m.id,
                                !.request = m.kind[1], !.calls = 0, !.silent = FALSE]
            /\ UNCHANGED <<process, toNode>>
    /\ UNCHANGED nodeVars

\* SendHookCallRequest, while a contract runs.
SendHookCallRequest(h) ==
    /\ VMIs("run") /\ vm.request \in ContractRequests /\ vm.calls < MaxHookCalls
    /\ vm' = [vm EXCEPT !.pc = "hook", !.hook = h, !.nonce = NextNonce(@), !.calls = @ + 1]
    /\ toNode' = Append(toNode, [Message(Request(h), NextNonce(vm.nonce))
                                    EXCEPT !.schedule = vm.schedule])
    /\ UNCHANGED <<nodeVars, process, toVM>>

\* The response of the node; the host continues with what the gateway
\* returns, whether the node said so or not.
ReceiveHookCallResponse ==
    /\ VMIs("hook") /\ toVM # <<>>
    /\ toVM' = Tail(toVM)
    /\ LET m == Head(toVM)
           received == InSequence(m, vm.nonce)
           got == GatewayResult(vm.hook, received, m.kind, m.outcome)
       IN vm' = [vm EXCEPT !.pc = "run", !.hook = "",
                           !.nonce = IF received THEN m.nonce ELSE @,
                           !.silent = \/ @ \/ got = "default"
                                      \/ got = "answer" /\ m.outcome = "error"]
    /\ UNCHANGED <<nodeVars, process, toNode>>

\* SendContractResponse and ResetDialogue.
SendContractResponse ==
    /\ VMIs("run")
    /\ toNode' = Append(toNode,
         [Message(AnswerTo(vm.request), NextNonce(vm.nonce))
            EXCEPT !.id = vm.id, !.schedule = vm.schedule, !.silent = vm.silent])
    /\ vm' = [NewVMPart(vm.schedule) EXCEPT !.pc = "receive"]
    /\ UNCHANGED <<nodeVars, process, toVM>>

-----------------------------------------------------------------------------
(* The environment *)

\* The VM process crashes.
Crash ==
    /\ process = "running" /\ faults < MaxFaults
    /\ process' = "zombie" /\ faults' = faults + 1
    /\ UNCHANGED <<callerVars, driverVars, part, remaining, toVM, toNode, vm,
                   compiled, issued>>

\* Somebody closes the driver, which takes no mutex.
CloseDriver ==
    /\ process \in {"running", "zombie"} /\ faults < MaxFaults
    /\ Close /\ faults' = faults + 1
    /\ UNCHANGED <<callerVars, driverVars, part, remaining, toVM, toNode, vm,
                   compiled, issued>>

CallerStep(c) ==
    \/ Lock(c) \/ RestartVMIfNecessary(c) \/ StartVMFails(c) \/ PanicInIsClosed(c)
    \/ SendContractRequest(c) \/ ReceiveHookCallRequestOrContractResponse(c)
    \/ Timeout(c)

VMStep ==
    \/ ReceiveNodeRequest \/ ReceiveHookCallResponse \/ SendContractResponse
    \/ \E h \in Hooks : SendHookCallRequest(h)

Next ==
    \/ \E c \in Caller : CallerStep(c) \/ \E kind \in Operations : Call(c, kind)
    \/ VMStep \/ Crash \/ CloseDriver

Spec == Init /\ [][Next]_vars

\* Goroutines of the node are scheduled and deadlines expire.  Nothing is
\* assumed of the VM process: a contract may run for ever.
FairSpec == Spec /\ \A c \in Caller : WF_vars(CallerStep(c))

-----------------------------------------------------------------------------
(* Properties *)

\* An answer is the answer to the caller's own request, never one to an earlier
\* request that came too late (StartLoop, driver.Close); the contract has seen
\* nothing else than what the node's hooks returned, although the gateway hides
\* failed calls from it; and the VM had the schedule of the last
\* GasScheduleChange, although that request ends in a crash of the VM.
AnswersAreRight ==
    \A c \in Caller : result[c].status = "ok" =>
        /\ result[c].answered = result[c].asked
        /\ ~result[c].silent
        /\ result[c].schedule = result[c].expected

\* A request begins a new dialogue: nothing of an earlier one is left in the
\* pipes and both parts have reset their nonces (ResetDialogue).
DialoguesStartFresh ==
    \A c \in Caller :
        pc[c] = "send" /\ process = "running" /\ part.open =>
            /\ part.nonce = 0 /\ vm.nonce = 0 /\ vm.pc = "receive"
            /\ toVM = <<>> /\ toNode = <<>>

\* The compiled code that the node would give to the VM was compiled with
\* the opcode costs of that VM's schedule (ClearCompiledCodes in startVM).
CompiledCodeIsCurrent ==
    process = "running" /\ part.open => compiled \subseteq {vm.schedule}

\* Only the holder of the mutex talks to the VM, so at most one message is
\* under way, and the nonces and the time left stay in their ranges (TypeOK).
OneMessageUnderWay ==
    /\ TypeOK
    /\ process = "running" /\ part.open => Len(toVM) + Len(toNode) <= 1

\* An operation ends, whatever the VM does, unless the loop is left waiting
\* without a deadline because its time is exactly over.
OperationsEndOrLoseTheirDeadline ==
    \A c \in Caller :
        pc[c] # "idle" ~> \/ pc[c] = "idle"
                          \/ \E d \in Caller : pc[d] = "loop" /\ remaining = 0
=============================================================================
