------------------------------ MODULE IPC_proofs ------------------------------
(***************************************************************************)
(* Proofs about the node and the VM process of ipc/, for any number of     *)
(* callers, operations, hook calls and faults, and for any set of hooks.   *)
(***************************************************************************)
EXTENDS IPC, SequenceTheorems, TLAPS

-----------------------------------------------------------------------------
(* The kinds of messages *)

LEMMA OrdinalOfName ==
  ASSUME NEW n \in Range(MessageKinds)
  PROVE  /\ \E i \in DOMAIN MessageKinds :
               MessageKinds[i] = n /\ Ordinal(Request(n)) = 2 * i
         /\ \E i \in DOMAIN MessageKinds :
               MessageKinds[i] = n /\ Ordinal(Response(n)) = 2 * i + 1
  <1>1. ASSUME NEW kind, kind[1] = n
        PROVE  \E i \in DOMAIN MessageKinds :
                  /\ MessageKinds[i] = n
                  /\ Ordinal(kind) = 2 * i + IF kind[2] = "Request" THEN 0 ELSE 1
    <2>. DEFINE i == CHOOSE j \in DOMAIN MessageKinds : MessageKinds[j] = kind[1]
    <2>1. i \in DOMAIN MessageKinds /\ MessageKinds[i] = n BY <1>1 DEF Range
    <2>2. Ordinal(kind) = 2 * i + IF kind[2] = "Request" THEN 0 ELSE 1 BY DEF Ordinal
    <2>. QED BY <2>1, <2>2
  <1>2. Request(n)[1] = n /\ Request(n)[2] = "Request" BY DEF Request
  <1>3. Response(n)[1] = n /\ Response(n)[2] = "Response" BY DEF Response
  <1>4. DOMAIN MessageKinds \subseteq Nat BY DEF MessageKinds
  <1>. QED BY <1>1, <1>2, <1>3, <1>4

\* The positions in the enumeration of messages.go that the ranges of
\* IsHookCall and IsDiagnose depend on.
LEMMA Positions ==
  /\ DOMAIN MessageKinds = 1 .. 39
  /\ \A i \in DOMAIN MessageKinds :
        /\ MessageKinds[i] = "Contract" <=> i = 5
        /\ MessageKinds[i] = "GasScheduleChange" <=> i = 6
        /\ MessageKinds[i] = "NewAddress" <=> i = 7
        /\ MessageKinds[i] = "GetCompiledCode" <=> i = 31
        /\ MessageKinds[i] = "DiagnoseWait" <=> i = 32
        /\ MessageKinds[i] = "Version" <=> i = 33
        /\ MessageKinds[i] = "RevertToSnapshot" <=> i = 37
  BY DEF MessageKinds

LEMMA NamesOfHooks == AllHooks \subseteq Range(MessageKinds)
  BY DEF AllHooks, AddressAndStorageMessages, LastBlockMessages, CurrentBlockMessages,
         BuiltinMessages, AccountMessages, CompiledCodeMessages,
         TokenAndSnapshotMessages, Range, MessageKinds

LEMMA NamesOfRequests ==
  NodeRequests \cup {"Stop", "Contract", "UndefinedRequestOrResponse"}
     \subseteq Range(MessageKinds)
  BY DEF NodeRequests, ContractRequests, Range, MessageKinds

LEMMA RangesOfKinds ==
  /\ Ordinal(Request("NewAddress")) = 14 /\ Ordinal(Response("GetCompiledCode")) = 63
  /\ Ordinal(Request("DiagnoseWait")) = 64 /\ Ordinal(Response("DiagnoseWait")) = 65
  <1>1. {"NewAddress", "GetCompiledCode", "DiagnoseWait"} \subseteq Range(MessageKinds)
    BY DEF Range, MessageKinds
  <1>. QED BY <1>1, OrdinalOfName, Positions

\* The answer to a request ends the loop of the node and is no hook call.
LEMMA AnswersAreFinal ==
  ASSUME NEW r \in NodeRequests
  PROVE  ~IsHookCall(AnswerTo(r)) /\ IsFinalResponse(AnswerTo(r))
  <1>1. {"Contract", "Version", "GasScheduleChange", "DiagnoseWait"}
           \subseteq Range(MessageKinds)
    BY NamesOfRequests DEF NodeRequests
  <1>2. /\ Ordinal(Response("Contract")) = 11 /\ Ordinal(Response("Version")) = 67
        /\ Ordinal(Response("GasScheduleChange")) = 13
    BY <1>1, OrdinalOfName, Positions
  <1>3. AnswerTo(r) \in {Response("Contract"), Response("Version"),
                         Response("GasScheduleChange"), Response("DiagnoseWait")}
    BY DEF AnswerTo, NodeRequests
  <1>. QED BY <1>2, <1>3, RangesOfKinds DEF IsHookCall, IsFinalResponse, IsDiagnose

\* A hook call does not end it, and a hook that the loop serves is not
\* RevertToSnapshot, whose kind comes after the range of IsHookCall.
LEMMA HooksAreNotFinal ==
  ASSUME NEW h \in AllHooks
  PROVE  /\ ~IsFinalResponse(Request(h))
         /\ IsHookCall(Request(h)) => h # "RevertToSnapshot"
  <1>1. PICK i \in DOMAIN MessageKinds :
           MessageKinds[i] = h /\ Ordinal(Request(h)) = 2 * i
    BY OrdinalOfName, NamesOfHooks
  <1>2. h # "DiagnoseWait"
    BY DEF AllHooks, AddressAndStorageMessages, LastBlockMessages, CurrentBlockMessages,
           BuiltinMessages, AccountMessages, CompiledCodeMessages, TokenAndSnapshotMessages
  <1>3. ~IsDiagnose(Request(h))
    BY <1>1, <1>2, Positions, RangesOfKinds DEF IsDiagnose
  <1>4. Request(h) \notin {Response("Version"), Response("Contract"),
                           Response("GasScheduleChange")}
    BY DEF Request, Response
  <1>5. IsHookCall(Request(h)) => h # "RevertToSnapshot"
    BY <1>1, Positions, RangesOfKinds DEF IsHookCall
  <1>. QED BY <1>3, <1>4, <1>5 DEF IsFinalResponse

\* Of the hooks that the loop serves, the contract is told when the node's
\* hook failed.
LEMMA FailuresAreReported ==
  ASSUME NEW h \in AllHooks, h # "RevertToSnapshot", NEW r \in Replies(h)
  PROVE  /\ GatewayResult(h, TRUE, r.kind, r.outcome) # "default"
         /\ ~(/\ GatewayResult(h, TRUE, r.kind, r.outcome) = "answer"
              /\ r.outcome = "error")
  <1>1. r.kind = Response(h) /\ r.outcome \in HookOutcomes(h)
    BY DEF Replies, NodeRepliers
  <1>2. h \in RepliersWithError => h \in HookMessagesWithError
    BY DEF RepliersWithError, AddressAndStorageRepliers, LastBlockRepliers,
           CurrentBlockRepliers, BuiltinRepliers, AccountRepliers, CompiledCodeRepliers,
           TokenAndSnapshotRepliers, HookMessagesWithError, BuiltinMessages
  <1>. QED BY <1>1, <1>2 DEF GatewayResult, HookOutcomes

\* The VM has no creator for a GasScheduleChangeRequest, and panics on it.
LEMMA GasScheduleChangeIsRefused ==
  Request("GasScheduleChange") \in VMRepliers /\ ~HasItsOwnType(Request("GasScheduleChange"))
  <1>1. "GasScheduleChange" \notin AllHooks
    BY DEF AllHooks, AddressAndStorageMessages, LastBlockMessages, CurrentBlockMessages,
           BuiltinMessages, AccountMessages, CompiledCodeMessages, TokenAndSnapshotMessages
  <1>2. Request("GasScheduleChange") \notin NodeMessageCreators
    BY DEF NodeMessageCreators, Request, Response
  <1>3. Request("GasScheduleChange") \notin BlockMessageCreators \cup AccountMessageCreators
    BY <1>1 DEF BlockMessageCreators, AccountMessageCreators, BothKinds, AllHooks,
                Request, Response
  <1>. QED BY <1>2, <1>3 DEF VMRepliers, NodeRequests, HasItsOwnType, messageCreators

-----------------------------------------------------------------------------
(* The inductive invariant *)

\* The holder of operationsMutex, and nobody else, is inside an operation.
MutexInv ==
    \A c \in Caller : pc[c] \in {"restart", "send", "loop"} <=> operationsMutex = c

\* A caller that is not idle has asked for something that the VM answers.
OperationInv ==
    \A c \in Caller : pc[c] # "idle" => operation[c].kind \in NodeRequests

\* The node part is reset outside its loop, and loops only on open pipes.
PartInv ==
    /\ (\A c \in Caller : pc[c] # "loop") => part.nonce = 0
    /\ \A c \in Caller : pc[c] = "loop" => part.open

\* The VM sends at most a request and an answer for each of its hook calls,
\* and its own answer, so that the node's next message has a nonce in range.
FromVM == {m \in Messages : m.nonce <= 2 * MaxHookCalls + 2}

\* Where a dialogue between the loop of caller c and a running VM can be.
AtRest == vm.pc = "receive" /\ vm.nonce = 0 /\ toVM = <<>> /\ toNode = <<>>

RequestSent(c) ==
    /\ vm.pc = "receive" /\ vm.nonce = 0 /\ part.nonce = 1 /\ toNode = <<>>
    /\ Len(toVM) = 1
    /\ toVM[1].kind = Request(operation[c].kind)
    /\ toVM[1].nonce = 1 /\ toVM[1].id = operation[c].id

InContract(c) ==
    /\ vm.request = operation[c].kind /\ vm.id = operation[c].id /\ ~vm.silent
    /\ operation[c].kind # "GasScheduleChange"

Running(c) ==
    /\ vm.pc = "run" /\ InContract(c) /\ toVM = <<>> /\ toNode = <<>>
    /\ vm.nonce = 2 * vm.calls + 1 /\ part.nonce = vm.nonce

HookCalled(c) ==
    /\ vm.pc = "hook" /\ InContract(c) /\ toVM = <<>> /\ Len(toNode) = 1
    /\ vm.nonce = 2 * vm.calls /\ part.nonce = vm.nonce - 1 /\ vm.hook \in Hooks
    /\ toNode[1].kind = Request(vm.hook) /\ toNode[1].nonce = vm.nonce
    /\ toNode[1].schedule = vm.schedule

HookAnswered(c) ==
    /\ vm.pc = "hook" /\ InContract(c) /\ Len(toVM) = 1 /\ toNode = <<>>
    /\ vm.nonce = 2 * vm.calls /\ part.nonce = vm.nonce + 1 /\ vm.hook \in Hooks
    /\ IsHookCall(Request(vm.hook))
    /\ toVM[1].nonce = part.nonce
    /\ [kind |-> toVM[1].kind, outcome |-> toVM[1].outcome] \in Replies(vm.hook)

Answered(c) ==
    /\ vm.pc = "receive" /\ vm.nonce = 0 /\ toVM = <<>> /\ Len(toNode) = 1
    /\ operation[c].kind # "GasScheduleChange"
    /\ toNode[1].kind = AnswerTo(operation[c].kind)
    /\ toNode[1].nonce = part.nonce + 1 /\ toNode[1].id = operation[c].id
    /\ toNode[1].schedule = vm.schedule /\ ~toNode[1].silent

Dialogue(c) ==
    RequestSent(c) \/ Running(c) \/ HookCalled(c) \/ HookAnswered(c) \/ Answered(c)

\* A running VM is at rest, or in a dialogue with the caller in the loop.
DialogueInv ==
    process = "running" =>
        /\ (\A c \in Caller : pc[c] # "loop") => AtRest
        /\ \A c \in Caller : pc[c] = "loop" => Dialogue(c)

\* A running VM has the schedule of the last GasScheduleChange, except while
\* the operation that brings a newer one is under way.
ScheduleInv ==
    /\ gasSchedule = lastSchedule
    /\ process = "running" =>
          \/ vm.schedule = gasSchedule
          \/ /\ operationsMutex \in Caller
             /\ operation[operationsMutex].kind = "GasScheduleChange"

IndInv ==
    /\ TypeOK /\ toNode \in Seq(FromVM)
    /\ MutexInv /\ OperationInv /\ PartInv /\ DialogueInv /\ ScheduleInv

LEMMA Bounds ==
  /\ Nobody \notin Caller /\ MaxLoopTime \in Nat \ {0}
  /\ MaxOperations \in Nat /\ MaxHookCalls \in Nat /\ MaxFaults \in Nat
  BY IPCAssumption

\* A pipe that gets or loses a message.
LEMMA AppendToEmpty ==
  ASSUME NEW S, NEW m \in S
  PROVE  /\ Append(<<>>, m) \in Seq(S) /\ Len(Append(<<>>, m)) = 1
         /\ Append(<<>>, m)[1] = m
  OBVIOUS

LEMMA HeadAndTail ==
  ASSUME NEW S, NEW pipe \in Seq(S), pipe # <<>>
  PROVE  /\ Head(pipe) \in S /\ Tail(pipe) \in Seq(S) /\ Head(pipe) = pipe[1]
         /\ Len(pipe) = 1 => Tail(pipe) = <<>>
  <1>1. /\ Head(pipe) \in S /\ Tail(pipe) \in Seq(S)
        /\ Len(Tail(pipe)) = Len(pipe) - 1
    BY HeadTailProperties
  <1>2. Tail(pipe) # <<>> => Len(Tail(pipe)) # 0 BY <1>1, EmptySeq
  <1>3. Head(pipe) = pipe[1] OBVIOUS
  <1>. QED BY <1>1, <1>2, <1>3

\* The messages that Send makes.
LEMMA RequestTypes ==
  ASSUME NEW r \in NodeRequests, NEW n \in 1 .. 2 * MaxHookCalls + 3,
         NEW id \in 0 .. MaxOperations
  PROVE  [Message(Request(r), n) EXCEPT !.id = id] \in Messages
  <1>1. Request(r) \in Kinds BY NamesOfRequests DEF Kinds
  <1>2. 0 \in 0 .. MaxOperations BY IPCAssumption
  <1>. QED BY <1>1, <1>2 DEF Message, Messages

LEMMA HookCallTypes ==
  ASSUME NEW h \in AllHooks, NEW n \in 1 .. 2 * MaxHookCalls + 2,
         NEW s \in 0 .. MaxOperations
  PROVE  [Message(Request(h), n) EXCEPT !.schedule = s] \in FromVM
  <1>. DEFINE m == [Message(Request(h), n) EXCEPT !.schedule = s]
  <1>1. Request(h) \in Kinds BY NamesOfHooks DEF Kinds
  <1>2. 0 \in 0 .. MaxOperations /\ n \in 1 .. 2 * MaxHookCalls + 3 BY IPCAssumption
  <1>3. m \in Messages BY <1>1, <1>2 DEF Message, Messages
  <1>4. m.nonce = n BY DEF Message
  <1>5. m.nonce <= 2 * MaxHookCalls + 2 BY <1>4, IPCAssumption
  <1>6. m \in FromVM
    <2>. HIDE DEF m
    <2>. QED BY <1>3, <1>5 DEF FromVM
  <1>. QED BY <1>6

LEMMA AnswerTypes ==
  ASSUME NEW r \in NodeRequests, NEW n \in 1 .. 2 * MaxHookCalls + 2,
         NEW id \in 0 .. MaxOperations, NEW s \in 0 .. MaxOperations,
         NEW silent \in BOOLEAN
  PROVE  [Message(AnswerTo(r), n) EXCEPT !.id = id, !.schedule = s, !.silent = silent]
            \in FromVM
  <1>. DEFINE m == [Message(AnswerTo(r), n)
                       EXCEPT !.id = id, !.schedule = s, !.silent = silent]
  <1>1. AnswerTo(r) \in Kinds BY NamesOfRequests DEF AnswerTo, Kinds
  <1>2. n \in 1 .. 2 * MaxHookCalls + 3 BY IPCAssumption
  <1>3. m \in Messages BY <1>1, <1>2 DEF Message, Messages
  <1>4. m.nonce = n BY DEF Message
  <1>5. m.nonce <= 2 * MaxHookCalls + 2 BY <1>4, IPCAssumption
  <1>6. m \in FromVM
    <2>. HIDE DEF m
    <2>. QED BY <1>3, <1>5 DEF FromVM
  <1>. QED BY <1>6

LEMMA ReplyTypes ==
  ASSUME NEW k \in Range(MessageKinds), NEW n \in 1 .. 2 * MaxHookCalls + 3,
         NEW r \in Replies(k)
  PROVE  [Message(r.kind, n) EXCEPT !.outcome = r.outcome] \in Messages
  <1>1. r.kind \in Kinds /\ r.outcome \in {"none", "result", "nil", "error"}
    BY NamesOfRequests DEF Replies, HookOutcomes, noopReplier, Kinds
  <1>2. 0 \in 0 .. MaxOperations BY IPCAssumption
  <1>. QED BY <1>1, <1>2 DEF Message, Messages

\* The states of the VM part and of operations that the code makes.
LEMMA NewVMPartType ==
  ASSUME NEW s \in 0 .. MaxOperations
  PROVE  NewVMPart(s) \in VMParts
  <1>1. 0 \in 0 .. MaxOperations /\ 0 \in 0 .. 2 * MaxHookCalls + 3 /\ 0 \in 0 .. MaxHookCalls
    BY IPCAssumption
  <1>. QED BY <1>1 DEF NewVMPart, VMParts

LEMMA NoOperationType == NoOperation \in OperationRecords /\ NoResult \in Results
  <1>1. 0 \in 0 .. MaxOperations BY IPCAssumption
  <1>. QED BY <1>1 DEF NoOperation, OperationRecords, NoResult, Results, Outcomes

LEMMA InitIndInv == Init => IndInv
  <1>. SUFFICES ASSUME Init PROVE IndInv OBVIOUS
  <1>1. TypeOK
    BY NewVMPartType, NoOperationType, IPCAssumption DEF Init, TypeOK
  <1>2. toNode \in Seq(FromVM) BY DEF Init
  <1>3. MutexInv /\ OperationInv BY IPCAssumption DEF Init, MutexInv, OperationInv
  <1>4. PartInv /\ DialogueInv /\ ScheduleInv
    BY DEF Init, PartInv, DialogueInv, AtRest, ScheduleInv, NewVMPart
  <1>. QED BY <1>1, <1>2, <1>3, <1>4 DEF IndInv

-----------------------------------------------------------------------------
(* Steps of callers *)

LEMMA DialogueGoesOn ==
  ASSUME NEW c \in Caller, Dialogue(c), operation'[c] = operation[c],
         UNCHANGED <<vm, toVM, toNode, part>>
  PROVE  Dialogue(c)'
  BY DEF Dialogue, RequestSent, InContract, Running, HookCalled, HookAnswered, Answered

LEMMA CallStep ==
  ASSUME IndInv, NEW c \in Caller, NEW kind \in Operations, Call(c, kind)
  PROVE  IndInv'
  <1>. USE DEF IndInv
  <1>1. kind \in NodeRequests /\ issued' \in 0 .. MaxOperations /\ issued + 1 = issued'
    BY IPCAssumption DEF Call, TypeOK
  <1>2. operation' \in [Caller -> OperationRecords]
    BY <1>1, IPCAssumption DEF Call, TypeOK, OperationRecords
  <1>3. TypeOK' /\ toNode' \in Seq(FromVM)'
    <2>1. pc' \in [Caller -> {"idle", "lock", "restart", "send", "loop"}]
      BY DEF Call, TypeOK
    <2>2. UNCHANGED <<result, driverVars, process, part, remaining, toVM, toNode,
                      vm, compiled, faults>>
      BY DEF Call
    <2>3. TypeOK' BY <1>1, <1>2, <2>1, <2>2 DEF TypeOK, driverVars
    <2>. QED BY <2>2, <2>3 DEF FromVM, Messages
  <1>4. \A d \in Caller : d # c => operation'[d] = operation[d] /\ pc'[d] = pc[d]
    BY DEF Call, TypeOK
  <1>5. pc[c] = "idle" /\ pc'[c] = "lock" /\ operation'[c].kind = kind
    BY DEF Call, TypeOK
  <1>6. UNCHANGED <<operationsMutex, gasSchedule, lastSchedule, process, vm, toVM, toNode, part>>
    BY DEF Call, driverVars
  <1>7. MutexInv' /\ OperationInv'
    BY <1>1, <1>4, <1>5, <1>6 DEF MutexInv, OperationInv
  <1>8. PartInv' BY <1>4, <1>5, <1>6 DEF PartInv
  <1>9. DialogueInv'
    BY <1>4, <1>5, <1>6, DialogueGoesOn DEF DialogueInv, AtRest
  <1>10. ScheduleInv'
    BY <1>4, <1>5, <1>6 DEF ScheduleInv, MutexInv
  <1>. QED BY <1>3, <1>7, <1>8, <1>9, <1>10

LEMMA LockStep ==
  ASSUME IndInv, NEW c \in Caller, Lock(c)
  PROVE  IndInv'
  <1>. USE DEF IndInv
  <1>1. gasSchedule' \in 0 .. MaxOperations /\ lastSchedule' = gasSchedule'
    BY DEF Lock, TypeOK, ScheduleOf, OperationRecords, ScheduleInv
  <1>2. TypeOK' /\ toNode' \in Seq(FromVM)' BY <1>1 DEF Lock, TypeOK
  <1>3. \A d \in Caller : d # c => pc'[d] = pc[d]
    BY DEF Lock, TypeOK
  <1>4. pc[c] = "lock" /\ pc'[c] = "restart" /\ operationsMutex = Nobody /\ operationsMutex' = c
    BY DEF Lock, TypeOK
  <1>5. UNCHANGED <<operation, process, vm, toVM, toNode, part>> BY DEF Lock
  <1>6. MutexInv' /\ OperationInv'
    BY <1>3, <1>4, <1>5, IPCAssumption DEF MutexInv, OperationInv
  <1>7. PartInv' BY <1>3, <1>4, <1>5 DEF PartInv
  <1>8. DialogueInv'
    BY <1>3, <1>4, <1>5, DialogueGoesOn DEF DialogueInv, AtRest
  <1>9. ScheduleInv'
    BY <1>1, <1>4, <1>5, IPCAssumption DEF ScheduleInv, Lock, ScheduleOf
  <1>. QED BY <1>2, <1>6, <1>7, <1>8, <1>9

LEMMA FailureType ==
  ASSUME TypeOK, NEW c \in Caller, NEW status \in Outcomes
  PROVE  Failure(c, status) \in Results
  BY NoOperationType DEF TypeOK, Failure, Results, OperationRecords

\* The end of an operation: afterwards nobody is inside one.
LEMMA EndOfOperation ==
  ASSUME IndInv, NEW c \in Caller, pc[c] \in {"restart", "send", "loop"},
         NEW res \in Results, EndWith(c, res)
  PROVE  /\ pc' \in [Caller -> {"idle", "lock", "restart", "send", "loop"}]
         /\ operation' \in [Caller -> OperationRecords]
         /\ result' \in [Caller -> Results]
         /\ operationsMutex' = Nobody /\ operationsMutex = c
         /\ \A d \in Caller : pc'[d] \notin {"restart", "send", "loop"}
         /\ MutexInv' /\ OperationInv'
  <1>. USE DEF IndInv
  <1>1. /\ pc' \in [Caller -> {"idle", "lock", "restart", "send", "loop"}]
        /\ operation' \in [Caller -> OperationRecords]
        /\ result' \in [Caller -> Results]
    BY NoOperationType DEF TypeOK, EndWith
  <1>2. operationsMutex' = Nobody /\ operationsMutex = c BY DEF EndWith, MutexInv
  <1>3. pc'[c] = "idle" /\ \A d \in Caller : d # c => pc'[d] = pc[d] /\ operation'[d] = operation[d]
    BY DEF TypeOK, EndWith
  <1>4. \A d \in Caller : pc'[d] \notin {"restart", "send", "loop"}
    BY <1>2, <1>3 DEF MutexInv
  <1>5. MutexInv' BY <1>2, <1>4, IPCAssumption DEF MutexInv
  <1>6. OperationInv' BY <1>3 DEF OperationInv
  <1>. QED BY <1>1, <1>2, <1>4, <1>5, <1>6

LEMMA OnlyOneInside ==
  ASSUME MutexInv, NEW c \in Caller, pc[c] \in {"restart", "send", "loop"}
  PROVE  operationsMutex = c /\ \A d \in Caller : d # c => pc[d] \notin {"restart", "send", "loop"}
  BY DEF MutexInv

\* A VM that has just been started.
LEMMA StartVMTypes ==
  ASSUME TypeOK, vm' = NewVMPart(gasSchedule)
  PROVE  /\ vm' \in VMParts /\ vm'.schedule = gasSchedule
         /\ vm'.pc = "receive" /\ vm'.nonce = 0
  <1>1. gasSchedule \in 0 .. MaxOperations BY DEF TypeOK
  <1>2. vm' \in VMParts BY <1>1, NewVMPartType
  <1>. QED BY <1>2 DEF NewVMPart

LEMMA RestartStep ==
  ASSUME IndInv, NEW c \in Caller, RestartVMIfNecessary(c)
  PROVE  IndInv'
  <1>. USE DEF IndInv
  <1>1. /\ pc[c] = "restart" /\ pc'[c] = "send" /\ \A d \in Caller : d # c => pc'[d] = pc[d]
        /\ UNCHANGED <<operation, result, operationsMutex, gasSchedule, lastSchedule, remaining,
                        issued, faults>>
    BY DEF RestartVMIfNecessary, TypeOK, driverVars
  <1>2. pc' \in [Caller -> {"idle", "lock", "restart", "send", "loop"}]
    BY DEF RestartVMIfNecessary, TypeOK
  <1>3. \A d \in Caller : pc[d] # "loop" /\ pc'[d] # "loop" BY <1>1, OnlyOneInside
  <1>4. MutexInv' /\ OperationInv' BY <1>1 DEF MutexInv, OperationInv
  <1>5. CASE IsClosed
    <2>1. StartVM BY <1>5 DEF RestartVMIfNecessary
    <2>2. /\ vm' \in VMParts /\ vm'.schedule = gasSchedule
          /\ vm'.pc = "receive" /\ vm'.nonce = 0
      BY <2>1, StartVMTypes DEF StartVM
    <2>3. 0 \in 0 .. 2 * MaxHookCalls + 3 BY IPCAssumption
    <2>4. TypeOK' /\ toNode' \in Seq(FromVM)'
      BY <1>1, <1>2, <2>1, <2>2, <2>3 DEF StartVM, TypeOK
    <2>5. PartInv' /\ DialogueInv'
      BY <1>3, <2>1, <2>2 DEF StartVM, PartInv, DialogueInv, AtRest
    <2>6. ScheduleInv' BY <1>1, <2>2 DEF ScheduleInv
    <2>. QED BY <1>4, <2>4, <2>5, <2>6
  <1>6. CASE ~IsClosed
    <2>1. UNCHANGED <<process, toVM, toNode, vm, compiled, part>>
      BY <1>6 DEF RestartVMIfNecessary
    <2>2. TypeOK' /\ toNode' \in Seq(FromVM)' BY <1>1, <1>2, <2>1 DEF TypeOK
    <2>3. PartInv' /\ DialogueInv' BY <1>3, <2>1 DEF PartInv, DialogueInv, AtRest
    <2>4. ScheduleInv' BY <1>1, <2>1 DEF ScheduleInv
    <2>. QED BY <1>4, <2>2, <2>3, <2>4
  <1>. QED BY <1>5, <1>6

LEMMA StartVMFailsStep ==
  ASSUME IndInv, NEW c \in Caller, StartVMFails(c)
  PROVE  IndInv'
  <1>. USE DEF IndInv
  <1>1. Failure(c, "cannot start") \in Results BY FailureType DEF Outcomes
  <1>2. /\ pc[c] = "restart" /\ EndWith(c, Failure(c, "cannot start"))
        /\ UNCHANGED <<gasSchedule, lastSchedule, remaining, issued>>
    BY DEF StartVMFails
  <1>0. faults' \in 0 .. MaxFaults
    <2>1. faults \in 0 .. MaxFaults BY DEF TypeOK
    <2>2. faults < MaxFaults /\ faults' = faults + 1 BY DEF StartVMFails
    <2>. QED BY ONLY <2>1, <2>2, Bounds
  <1>3. /\ pc' \in [Caller -> {"idle", "lock", "restart", "send", "loop"}]
        /\ operation' \in [Caller -> OperationRecords]
        /\ result' \in [Caller -> Results]
        /\ operationsMutex' = Nobody
        /\ \A d \in Caller : pc'[d] \notin {"restart", "send", "loop"}
        /\ MutexInv' /\ OperationInv'
    BY <1>1, <1>2, EndOfOperation
  <1>4. \A d \in Caller : pc[d] # "loop" BY <1>2, OnlyOneInside
  <1>5. /\ toVM' = <<>> /\ toNode' = <<>>
        /\ process' \in {"running", "reaped", "nil"}
        /\ compiled' \in {compiled, {}}
        /\ \/ UNCHANGED vm /\ process' # "running"
           \/ vm' = NewVMPart(gasSchedule)
    BY DEF StartVMFails, StartVM
  <1>6. part' \in [nonce : 0 .. 2 * MaxHookCalls + 3, open : BOOLEAN] /\ part'.nonce = 0
    <2>1. part \in [nonce : 0 .. 2 * MaxHookCalls + 3, open : BOOLEAN] BY DEF TypeOK
    <2>2. part.nonce = 0 BY <1>4 DEF PartInv
    <2>3. 0 \in 0 .. 2 * MaxHookCalls + 3 BY Bounds
    <2>4. part' = [part EXCEPT !.open = FALSE] \/ part' = [nonce |-> 0, open |-> TRUE]
      BY DEF StartVMFails, StartVM
    <2>5. CASE part' = [part EXCEPT !.open = FALSE] BY ONLY <2>1, <2>2, <2>5
    <2>6. CASE part' = [nonce |-> 0, open |-> TRUE] BY ONLY <2>3, <2>6
    <2>. QED BY <2>4, <2>5, <2>6
  <1>7. /\ vm' \in VMParts
        /\ process' = "running" => /\ vm'.schedule = gasSchedule
                                   /\ vm'.pc = "receive" /\ vm'.nonce = 0
    <2>1. vm \in VMParts BY DEF TypeOK
    <2>. QED BY <1>5, <2>1, StartVMTypes
  <1>8. TypeOK' /\ toNode' \in Seq(FromVM)'
    <2>1. compiled \subseteq 0 .. MaxOperations BY DEF TypeOK
    <2>2. compiled' \subseteq 0 .. MaxOperations BY <1>5, <2>1
    <2>3. toVM' \in Seq(Messages) /\ toNode' \in Seq(Messages) /\ toNode' \in Seq(FromVM)
      BY <1>5
    <2>. QED BY <1>0, <1>2, <1>3, <1>5, <1>6, <1>7, <2>2, <2>3 DEF TypeOK
  <1>9. PartInv' /\ DialogueInv' BY <1>3, <1>5, <1>6, <1>7 DEF PartInv, DialogueInv, AtRest
  <1>10. ScheduleInv' BY <1>2, <1>7 DEF ScheduleInv
  <1>. QED BY <1>3, <1>8, <1>9, <1>10

LEMMA PanicStep ==
  ASSUME IndInv, NEW c \in Caller, PanicInIsClosed(c)
  PROVE  IndInv'
  <1>. USE DEF IndInv
  <1>1. Failure(c, "panic") \in Results BY FailureType DEF Outcomes
  <1>2. pc[c] = "restart" /\ process = "nil" /\ EndWith(c, Failure(c, "panic"))
    BY DEF PanicInIsClosed
  <1>3. UNCHANGED <<gasSchedule, lastSchedule, process, part, remaining, toVM, toNode, vm,
                    compiled, issued, faults>>
    BY DEF PanicInIsClosed
  <1>4. /\ pc' \in [Caller -> {"idle", "lock", "restart", "send", "loop"}]
        /\ operation' \in [Caller -> OperationRecords]
        /\ result' \in [Caller -> Results]
        /\ operationsMutex' = Nobody
        /\ \A d \in Caller : pc'[d] \notin {"restart", "send", "loop"}
        /\ MutexInv' /\ OperationInv'
    BY <1>1, <1>2, EndOfOperation
  <1>5. \A d \in Caller : pc[d] # "loop" BY <1>2, OnlyOneInside
  <1>6. TypeOK' /\ toNode' \in Seq(FromVM)' BY <1>3, <1>4 DEF TypeOK
  <1>7. PartInv' /\ DialogueInv' /\ ScheduleInv'
    BY <1>2, <1>3, <1>4, <1>5 DEF PartInv, DialogueInv, ScheduleInv
  <1>. QED BY <1>4, <1>6, <1>7

\* Close leaves no running process.
LEMMA CloseStops ==
  ASSUME TypeOK, Close
  PROVE  process' \in {"reaped", "nil"}
  BY DEF TypeOK, Close

LEMMA EndLoopWithErrorStep ==
  ASSUME IndInv, NEW c \in Caller, NEW status \in Outcomes, pc[c] = "loop",
         EndLoopWithError(c, status), toNode' \in Seq(FromVM), toNode' \in Seq(Messages),
         UNCHANGED <<gasSchedule, lastSchedule, vm, issued, faults>>
  PROVE  IndInv'
  <1>. USE DEF IndInv
  <1>1. Failure(c, status) \in Results BY FailureType
  <1>2. EndWith(c, Failure(c, status)) BY DEF EndLoopWithError
  <1>3. process' \in {"reaped", "nil"} BY CloseStops DEF EndLoopWithError
  <1>4. /\ pc' \in [Caller -> {"idle", "lock", "restart", "send", "loop"}]
        /\ operation' \in [Caller -> OperationRecords]
        /\ result' \in [Caller -> Results]
        /\ operationsMutex' = Nobody
        /\ \A d \in Caller : pc'[d] \notin {"restart", "send", "loop"}
        /\ MutexInv' /\ OperationInv'
    BY <1>1, <1>2, EndOfOperation
  <1>5. part' \in [nonce : 0 .. 2 * MaxHookCalls + 3, open : BOOLEAN] /\ part'.nonce = 0
    <2>1. part \in [nonce : 0 .. 2 * MaxHookCalls + 3, open : BOOLEAN] BY DEF TypeOK
    <2>2. 0 \in 0 .. 2 * MaxHookCalls + 3 BY Bounds
    <2>3. part' = [part EXCEPT !.nonce = 0] BY DEF EndLoopWithError
    <2>. QED BY ONLY <2>1, <2>2, <2>3
  <1>6. remaining' \in 0 .. MaxLoopTime /\ UNCHANGED <<toVM, compiled>>
    BY Bounds DEF EndLoopWithError
  <1>7. TypeOK' BY <1>3, <1>4, <1>5, <1>6 DEF TypeOK
  <1>8. PartInv' /\ DialogueInv' /\ ScheduleInv'
    BY <1>3, <1>4, <1>5 DEF PartInv, DialogueInv, ScheduleInv
  <1>. QED BY <1>4, <1>7, <1>8

LEMMA TimeoutStep ==
  ASSUME IndInv, NEW c \in Caller, Timeout(c)
  PROVE  IndInv'
  <1>1. /\ pc[c] = "loop" /\ EndLoopWithError(c, "time expired")
        /\ UNCHANGED <<gasSchedule, lastSchedule, vm, issued, faults>> /\ toNode' = toNode
    BY DEF Timeout
  <1>2. toNode \in Seq(FromVM) /\ toNode \in Seq(Messages) BY DEF IndInv, TypeOK
  <1>3. "time expired" \in Outcomes BY DEF Outcomes
  <1>. QED BY <1>1, <1>2, <1>3, EndLoopWithErrorStep

LEMMA SendContractRequestStep ==
  ASSUME IndInv, NEW c \in Caller, SendContractRequest(c)
  PROVE  IndInv'
  <1>. USE DEF IndInv
  <1>1. /\ pc[c] = "send"
        /\ UNCHANGED <<gasSchedule, lastSchedule, toNode, vm, compiled, issued, faults>>
    BY DEF SendContractRequest
  <1>2. \A d \in Caller : pc[d] # "loop" BY <1>1, OnlyOneInside
  <1>3. part \in [nonce : 0 .. 2 * MaxHookCalls + 3, open : BOOLEAN] /\ part.nonce = 0
    BY <1>2 DEF TypeOK, PartInv
  <1>4. CASE part.open
    <2>. DEFINE m == [Message(Request(operation[c].kind), 1) EXCEPT !.id = operation[c].id]
    <2>1. part' = [part EXCEPT !.nonce = 1] /\ toVM' = Append(toVM, m)
      BY <1>3, <1>4 DEF SendContractRequest, NextNonce
    <2>2. /\ remaining' = MaxLoopTime /\ pc' = [pc EXCEPT ![c] = "loop"]
          /\ UNCHANGED <<operation, result, operationsMutex, process>>
      BY <1>4 DEF SendContractRequest
    <2>3. /\ pc' \in [Caller -> {"idle", "lock", "restart", "send", "loop"}]
          /\ pc'[c] = "loop" /\ \A d \in Caller : d # c => pc'[d] = pc[d]
      BY <2>2 DEF TypeOK
    <2>4. 1 \in 1 .. 2 * MaxHookCalls + 3 /\ 1 \in 0 .. 2 * MaxHookCalls + 3 BY Bounds
    <2>5. operation[c].kind \in NodeRequests /\ operation[c].id \in 0 .. MaxOperations
      BY <1>1 DEF OperationInv, TypeOK, OperationRecords
    <2>6. m \in Messages BY <2>4, <2>5, RequestTypes
    <2>7. m.kind = Request(operation[c].kind) /\ m.nonce = 1 /\ m.id = operation[c].id
      BY DEF Message
    <2>8. part' \in [nonce : 0 .. 2 * MaxHookCalls + 3, open : BOOLEAN]
          /\ part'.nonce = 1 /\ part'.open
      BY ONLY <1>3, <1>4, <2>1, <2>4
    <2>. HIDE DEF m
    <2>9. toVM' \in Seq(Messages)
      BY <2>1, <2>6, AppendProperties DEF TypeOK
    <2>10. remaining' \in 0 .. MaxLoopTime BY <2>2, Bounds
    <2>11. TypeOK' /\ toNode' \in Seq(FromVM)'
      BY <1>1, <2>2, <2>3, <2>8, <2>9, <2>10 DEF TypeOK
    <2>12. MutexInv' /\ OperationInv' /\ PartInv' /\ ScheduleInv'
      BY <1>1, <2>2, <2>3, <2>8 DEF MutexInv, OperationInv, PartInv, ScheduleInv
    <2>13. ASSUME process' = "running" PROVE RequestSent(c)'
      <3>1. AtRest BY <1>2, <2>2, <2>13 DEF DialogueInv
      <3>2. Len(toVM') = 1 /\ toVM'[1] = m BY <3>1, <2>1, <2>6, AppendToEmpty DEF AtRest
      <3>. QED BY <1>1, <2>2, <2>7, <2>8, <3>1, <3>2 DEF RequestSent, AtRest
    <2>14. DialogueInv'
      BY <1>2, <2>3, <2>13 DEF DialogueInv, Dialogue
    <2>. QED BY <2>11, <2>12, <2>14
  <1>5. CASE ~part.open
    <2>1. EndWith(c, Failure(c, "cannot send")) /\ Close /\ UNCHANGED <<part, toVM, remaining>>
      BY <1>5 DEF SendContractRequest
    <2>2. Failure(c, "cannot send") \in Results BY FailureType DEF Outcomes
    <2>3. process' \in {"reaped", "nil"} BY <2>1, CloseStops
    <2>4. /\ pc' \in [Caller -> {"idle", "lock", "restart", "send", "loop"}]
          /\ operation' \in [Caller -> OperationRecords]
          /\ result' \in [Caller -> Results]
          /\ operationsMutex' = Nobody
          /\ \A d \in Caller : pc'[d] \notin {"restart", "send", "loop"}
          /\ MutexInv' /\ OperationInv'
      BY <1>1, <2>1, <2>2, EndOfOperation
    <2>5. TypeOK' /\ toNode' \in Seq(FromVM)' BY <1>1, <2>1, <2>3, <2>4 DEF TypeOK
    <2>6. PartInv' /\ DialogueInv' /\ ScheduleInv'
      BY <1>1, <1>3, <2>1, <2>3, <2>4 DEF PartInv, DialogueInv, ScheduleInv
    <2>. QED BY <2>4, <2>5, <2>6
  <1>. QED BY <1>4, <1>5

\* The node serves a hook call, of a VM that still runs or of one that does not.
LEMMA ReplyToHookCallStep ==
  ASSUME IndInv, NEW c \in Caller, pc[c] = "loop", toNode # <<>>, toNode' = Tail(toNode),
         UNCHANGED <<gasSchedule, lastSchedule, vm, issued, faults>>,
         IsHookCall(Head(toNode).kind), NEW left \in 0 .. MaxLoopTime,
         ReplyToHookCall(Head(toNode), left)
  PROVE  IndInv'
  <1>. USE DEF IndInv
  <1>. DEFINE m == Head(toNode)
  <1>1. /\ m \in FromVM /\ toNode' \in Seq(FromVM) /\ m = toNode[1]
        /\ Len(toNode) = 1 => toNode' = <<>>
    BY HeadAndTail
  <1>2. toNode' \in Seq(Messages) BY HeadAndTail DEF TypeOK
  <1>3. m \in Messages /\ m.nonce \in 1 .. 2 * MaxHookCalls + 2
    <2>1. m \in Messages /\ m.nonce <= 2 * MaxHookCalls + 2 BY <1>1 DEF FromVM
    <2>. HIDE DEF m
    <2>2. m.nonce \in 1 .. 2 * MaxHookCalls + 3 BY <2>1 DEF Messages
    <2>. QED BY <2>1, <2>2, Bounds
  <1>4. /\ m.nonce + 1 \in 1 .. 2 * MaxHookCalls + 3
        /\ m.nonce + 1 \in 0 .. 2 * MaxHookCalls + 3
    <2>. HIDE DEF m
    <2>. QED BY <1>3, Bounds
  <1>5. m.kind[1] \in Range(MessageKinds) /\ m.schedule \in 0 .. MaxOperations
    <2>. HIDE DEF m
    <2>1. m.kind \in Kinds /\ m.schedule \in 0 .. MaxOperations BY <1>3 DEF Messages
    <2>. QED BY <2>1 DEF Kinds, Request, Response
  <1>6. PICK r \in Replies(m.kind[1]) :
           toVM' = Append(toVM, [Message(r.kind, m.nonce + 1) EXCEPT !.outcome = r.outcome])
    BY DEF ReplyToHookCall, NextNonce
  <1>. DEFINE reply == [Message(r.kind, m.nonce + 1) EXCEPT !.outcome = r.outcome]
  <1>7. reply \in Messages BY <1>4, <1>5, ReplyTypes
  <1>8. reply.kind = r.kind /\ reply.outcome = r.outcome /\ reply.nonce = m.nonce + 1
    BY DEF Message
  <1>9. part' = [part EXCEPT !.nonce = m.nonce + 1] BY DEF ReplyToHookCall, NextNonce
  <1>10. /\ part' \in [nonce : 0 .. 2 * MaxHookCalls + 3, open : BOOLEAN]
         /\ part'.nonce = m.nonce + 1 /\ part'.open = part.open
    <2>1. part \in [nonce : 0 .. 2 * MaxHookCalls + 3, open : BOOLEAN] BY DEF TypeOK
    <2>. HIDE DEF m
    <2>. QED BY ONLY <2>1, <1>4, <1>9
  <1>11. compiled' \subseteq 0 .. MaxOperations
    BY <1>5 DEF ReplyToHookCall, ServeCompiledCode, TypeOK
  <1>12. remaining' = left /\ UNCHANGED <<pc, operation, result, operationsMutex, process>>
    BY DEF ReplyToHookCall, callerVars
  <1>. HIDE DEF m, reply
  <1>13. toVM' \in Seq(Messages) BY <1>6, <1>7, AppendProperties DEF reply, TypeOK
  <1>14. TypeOK' BY <1>2, <1>10, <1>11, <1>12, <1>13 DEF TypeOK
  <1>15. MutexInv' /\ OperationInv' /\ ScheduleInv'
    BY <1>12 DEF MutexInv, OperationInv, ScheduleInv
  <1>16. PartInv' BY <1>10, <1>12 DEF PartInv
  <1>17. ASSUME process = "running" PROVE HookAnswered(c)'
    <2>1. Dialogue(c) BY <1>17 DEF DialogueInv
    <2>2. ~Answered(c)
      <3>1. operation[c].kind \in NodeRequests BY DEF OperationInv
      <3>2. ~IsHookCall(AnswerTo(operation[c].kind)) BY <3>1, AnswersAreFinal
      <3>. QED BY <1>1, <3>2 DEF Answered, m
    <2>3. HookCalled(c)
      BY <2>1, <2>2 DEF Dialogue, RequestSent, Running, HookAnswered
    <2>4. m.kind = Request(vm.hook) /\ m.nonce = vm.nonce /\ Len(toNode) = 1
      BY <1>1, <2>3 DEF HookCalled
    <2>5. m.kind[1] = vm.hook BY <2>4 DEF Request
    <2>6. Len(toVM') = 1 /\ toVM'[1] = reply
      BY <1>6, <1>7, <2>3, AppendToEmpty DEF HookCalled, reply
    <2>7. [kind |-> r.kind, outcome |-> r.outcome] \in Replies(vm.hook)
      <3>1. [kind |-> r.kind, outcome |-> r.outcome] = r
        BY <2>5 DEF Replies, noopReplier
      <3>. QED BY <2>5, <3>1
    <2>8. IsHookCall(Request(vm.hook)) BY <2>4 DEF m
    <2>9. InContract(c)' BY <1>12, <2>3 DEF HookCalled, InContract
    <2>10. toNode' = <<>> BY <1>1, <2>4
    <2>. QED BY <1>8, <1>10, <2>3, <2>4, <2>6, <2>7, <2>8, <2>9, <2>10
             DEF HookAnswered, HookCalled
  <1>18. DialogueInv'
    <2>1. \A d \in Caller : pc[d] = "loop" => d = c BY OnlyOneInside
    <2>. QED BY <1>12, <1>17, <2>1 DEF DialogueInv, Dialogue
  <1>. QED BY <1>1, <1>14, <1>15, <1>16, <1>18

\* The node has its answer.
LEMMA EndLoopWithAnswerStep ==
  ASSUME IndInv, NEW c \in Caller, pc[c] = "loop", toNode # <<>>, toNode' = Tail(toNode),
         UNCHANGED <<gasSchedule, lastSchedule, vm, issued, faults>>,
         IsFinalResponse(Head(toNode).kind), EndLoopWithAnswer(c, Head(toNode))
  PROVE  IndInv'
  <1>. USE DEF IndInv
  <1>. DEFINE m == Head(toNode)
              res == [status |-> "ok", asked |-> operation[c].id, answered |-> m.id,
                      expected |-> lastSchedule, schedule |-> m.schedule, silent |-> m.silent]
  <1>1. /\ m \in FromVM /\ toNode' \in Seq(FromVM) /\ m = toNode[1]
        /\ Len(toNode) = 1 => toNode' = <<>>
    BY HeadAndTail
  <1>2. toNode' \in Seq(Messages) /\ m \in Messages BY HeadAndTail DEF TypeOK
  <1>3. res \in Results
    <2>. HIDE DEF m
    <2>1. m.id \in 0 .. MaxOperations /\ m.schedule \in 0 .. MaxOperations /\ m.silent \in BOOLEAN
      BY <1>2 DEF Messages
    <2>2. operation[c].id \in 0 .. MaxOperations /\ lastSchedule \in 0 .. MaxOperations
      BY DEF TypeOK, OperationRecords
    <2>. QED BY ONLY <2>1, <2>2 DEF Results, Outcomes
  <1>4. EndWith(c, res) BY DEF EndLoopWithAnswer
  <1>5. /\ pc' \in [Caller -> {"idle", "lock", "restart", "send", "loop"}]
        /\ operation' \in [Caller -> OperationRecords]
        /\ result' \in [Caller -> Results]
        /\ operationsMutex' = Nobody /\ operationsMutex = c
        /\ \A d \in Caller : pc'[d] \notin {"restart", "send", "loop"}
        /\ MutexInv' /\ OperationInv'
    <2>. HIDE DEF res
    <2>. QED BY <1>3, <1>4, EndOfOperation
  <1>6. part' \in [nonce : 0 .. 2 * MaxHookCalls + 3, open : BOOLEAN] /\ part'.nonce = 0
    <2>1. part \in [nonce : 0 .. 2 * MaxHookCalls + 3, open : BOOLEAN] BY DEF TypeOK
    <2>2. 0 \in 0 .. 2 * MaxHookCalls + 3 BY Bounds
    <2>3. part' = [part EXCEPT !.nonce = 0] BY DEF EndLoopWithAnswer
    <2>. QED BY ONLY <2>1, <2>2, <2>3
  <1>7. remaining' \in 0 .. MaxLoopTime /\ UNCHANGED <<process, toVM, compiled>>
    BY Bounds DEF EndLoopWithAnswer
  <1>8. TypeOK' BY <1>2, <1>5, <1>6, <1>7 DEF TypeOK
  <1>9. PartInv' BY <1>5, <1>6 DEF PartInv
  <1>10. ASSUME process = "running" PROVE Answered(c)
    <2>1. Dialogue(c) BY <1>10 DEF DialogueInv
    <2>2. ~HookCalled(c)
      <3>1. Hooks \subseteq AllHooks BY IPCAssumption DEF Gateway
      <3>2. ASSUME HookCalled(c) PROVE FALSE
        <4>1. vm.hook \in AllHooks /\ m.kind = Request(vm.hook) BY <1>1, <3>1, <3>2 DEF HookCalled
        <4>. QED BY <4>1, HooksAreNotFinal
      <3>. QED BY <3>2
    <2>. QED BY <2>1, <2>2 DEF Dialogue, RequestSent, Running, HookAnswered
  <1>11. DialogueInv' /\ ScheduleInv'
    BY <1>1, <1>5, <1>7, <1>10 DEF DialogueInv, ScheduleInv, AtRest, Answered
  <1>. QED BY <1>1, <1>5, <1>8, <1>9, <1>11

LEMMA ReceiveStep ==
  ASSUME IndInv, NEW c \in Caller, ReceiveHookCallRequestOrContractResponse(c)
  PROVE  IndInv'
  <1>1. /\ pc[c] = "loop" /\ toNode # <<>> /\ toNode' = Tail(toNode)
        /\ UNCHANGED <<gasSchedule, lastSchedule, vm, issued, faults>>
    BY DEF ReceiveHookCallRequestOrContractResponse
  <1>2. toNode' \in Seq(FromVM) /\ toNode' \in Seq(Messages)
    BY <1>1, HeadAndTail DEF IndInv, TypeOK
  <1>3. \/ \E status \in Outcomes : EndLoopWithError(c, status)
        \/ /\ IsHookCall(Head(toNode).kind)
           /\ \E duration \in 0 .. remaining + 1 :
                ~Expires(remaining - duration) /\ ReplyToHookCall(Head(toNode), remaining - duration)
        \/ /\ IsFinalResponse(Head(toNode).kind)
           /\ EndLoopWithAnswer(c, Head(toNode))
    BY DEF ReceiveHookCallRequestOrContractResponse, Outcomes
  <1>4. ASSUME NEW status \in Outcomes, EndLoopWithError(c, status) PROVE IndInv'
    BY <1>1, <1>2, <1>4, EndLoopWithErrorStep
  <1>5. ASSUME IsHookCall(Head(toNode).kind), NEW duration \in 0 .. remaining + 1,
               ~Expires(remaining - duration), ReplyToHookCall(Head(toNode), remaining - duration)
        PROVE  IndInv'
    <2>1. remaining \in 0 .. MaxLoopTime BY DEF IndInv, TypeOK
    <2>2. remaining - duration \in 0 .. MaxLoopTime BY <1>5, <2>1, Bounds DEF Expires
    <2>. QED BY <1>1, <1>5, <2>2, ReplyToHookCallStep
  <1>6. ASSUME IsFinalResponse(Head(toNode).kind), EndLoopWithAnswer(c, Head(toNode))
        PROVE  IndInv'
    BY <1>1, <1>6, EndLoopWithAnswerStep
  <1>. QED BY <1>3, <1>4, <1>5, <1>6

LEMMA CallerStepInd ==
  ASSUME IndInv, NEW c \in Caller, CallerStep(c)
  PROVE  IndInv'
  BY LockStep, RestartStep, StartVMFailsStep, PanicStep, SendContractRequestStep,
     ReceiveStep, TimeoutStep DEF CallerStep

-----------------------------------------------------------------------------
(* Steps of the VM process and of its environment *)

\* A process that ends leaves the pipes to the node.
LEMMA ProcessEnds ==
  ASSUME IndInv, process' \in {"zombie", "reaped"}, toVM' \in Seq(Messages),
         faults' \in 0 .. MaxFaults,
         UNCHANGED <<pc, operation, result, operationsMutex, gasSchedule, lastSchedule,
                     part, remaining, toNode, vm, compiled, issued>>
  PROVE  IndInv'
  <1>. USE DEF IndInv
  <1>1. TypeOK' /\ toNode' \in Seq(FromVM)' BY DEF TypeOK
  <1>2. MutexInv' /\ OperationInv' /\ PartInv' /\ DialogueInv' /\ ScheduleInv'
    BY DEF MutexInv, OperationInv, PartInv, DialogueInv, ScheduleInv
  <1>. QED BY <1>1, <1>2

\* A running VM that has something to do is in the dialogue of one caller.
LEMMA InDialogue ==
  ASSUME IndInv, process = "running", ~AtRest
  PROVE  \E c \in Caller : /\ pc[c] = "loop" /\ Dialogue(c)
                           /\ \A d \in Caller : pc[d] = "loop" => d = c
  <1>1. PICK c \in Caller : pc[c] = "loop" BY DEF IndInv, DialogueInv
  <1>2. \A d \in Caller : pc[d] = "loop" => d = c BY <1>1, OnlyOneInside DEF IndInv
  <1>. QED BY <1>1, <1>2 DEF IndInv, DialogueInv

\* What is left to show of a step of the VM.
LEMMA VMStepInd ==
  ASSUME IndInv, process = "running", UNCHANGED <<nodeVars, process>>,
         vm' \in VMParts, vm'.schedule = vm.schedule,
         toVM' \in Seq(Messages), toNode' \in Seq(FromVM), toNode' \in Seq(Messages),
         NEW c \in Caller, pc[c] = "loop", \A d \in Caller : pc[d] = "loop" => d = c,
         Dialogue(c)'
  PROVE  IndInv'
  <1>. USE DEF IndInv
  <1>1. UNCHANGED <<pc, operation, result, operationsMutex, gasSchedule, lastSchedule, part,
                    remaining, compiled, issued, faults, process>>
    BY DEF nodeVars, callerVars, driverVars
  <1>2. TypeOK' BY <1>1 DEF TypeOK
  <1>3. MutexInv' /\ OperationInv' /\ PartInv' /\ ScheduleInv'
    BY <1>1 DEF MutexInv, OperationInv, PartInv, ScheduleInv
  <1>4. DialogueInv' BY <1>1 DEF DialogueInv
  <1>. QED BY <1>2, <1>3, <1>4

LEMMA ReceiveNodeRequestStep ==
  ASSUME IndInv, ReceiveNodeRequest
  PROVE  IndInv'
  <1>. USE DEF IndInv
  <1>. DEFINE m == Head(toVM)
  <1>1. /\ process = "running" /\ vm.pc = "receive" /\ toVM # <<>> /\ toVM' = Tail(toVM)
        /\ UNCHANGED nodeVars
    BY DEF ReceiveNodeRequest, VMIs
  <1>2. /\ toVM' \in Seq(Messages) /\ m = toVM[1] /\ m \in Messages
        /\ Len(toVM) = 1 => toVM' = <<>>
    BY <1>1, HeadAndTail DEF TypeOK
  <1>3. PICK c \in Caller : /\ pc[c] = "loop" /\ Dialogue(c)
                           /\ \A d \in Caller : pc[d] = "loop" => d = c
    BY <1>1, InDialogue DEF AtRest
  <1>4. RequestSent(c)
    BY <1>1, <1>3 DEF Dialogue, Running, HookCalled, HookAnswered, Answered
  <1>5. /\ m.kind = Request(operation[c].kind) /\ m.nonce = 1 /\ m.id = operation[c].id
        /\ vm.nonce = 0 /\ part.nonce = 1 /\ toNode = <<>> /\ toVM' = <<>>
    BY <1>2, <1>4 DEF RequestSent
  <1>6. CASE Exit
    <2>1. process' = "zombie" /\ UNCHANGED <<vm, toNode>> BY <1>6 DEF Exit
    <2>2. faults' \in 0 .. MaxFaults /\ UNCHANGED <<pc, operation, result, operationsMutex,
              gasSchedule, lastSchedule, part, remaining, compiled, issued>>
      BY <1>1 DEF nodeVars, callerVars, driverVars, TypeOK
    <2>. QED BY <1>2, <2>1, <2>2, ProcessEnds
  <1>7. CASE ~Exit
    <2>1. /\ ~(m.kind \in VMRepliers /\ ~HasItsOwnType(m.kind))
          /\ vm' = [vm EXCEPT !.pc = "run", !.nonce = m.nonce, !.id = m.id,
                              !.request = m.kind[1], !.calls = 0, !.silent = FALSE]
          /\ UNCHANGED <<process, toNode>>
      BY <1>7 DEF ReceiveNodeRequest
    <2>. HIDE DEF m
    <2>2. operation[c].kind # "GasScheduleChange"
      BY <1>5, <2>1, GasScheduleChangeIsRefused
    <2>3. operation[c].kind \in NodeRequests /\ operation[c].id \in 0 .. MaxOperations
      BY <1>3 DEF OperationInv, TypeOK, OperationRecords
    <2>4. m.kind[1] = operation[c].kind BY <1>5 DEF Request
    <2>5. vm' = [vm EXCEPT !.pc = "run", !.nonce = 1, !.id = operation[c].id,
                           !.request = operation[c].kind, !.calls = 0, !.silent = FALSE]
      BY <1>5, <2>1, <2>4
    <2>6. 1 \in 0 .. 2 * MaxHookCalls + 3 /\ 0 \in 0 .. MaxHookCalls BY Bounds
    <2>7. vm \in VMParts BY DEF TypeOK
    <2>8. /\ vm' \in VMParts /\ vm'.schedule = vm.schedule /\ vm'.pc = "run" /\ vm'.nonce = 1
          /\ vm'.id = operation[c].id /\ vm'.request = operation[c].kind /\ vm'.calls = 0
          /\ vm'.silent = FALSE
      BY ONLY <2>3, <2>5, <2>6, <2>7 DEF VMParts
    <2>9. UNCHANGED <<operation, part>> BY <1>1 DEF nodeVars, callerVars
    <2>10. Running(c)' BY <1>5, <2>1, <2>2, <2>8, <2>9 DEF Running, InContract
    <2>11. toNode' \in Seq(FromVM) /\ toNode' \in Seq(Messages) BY <1>5, <2>1
    <2>. QED BY <1>1, <1>2, <1>3, <2>1, <2>8, <2>10, <2>11, VMStepInd DEF Dialogue
  <1>. QED BY <1>6, <1>7

LEMMA SendHookCallRequestStep ==
  ASSUME IndInv, NEW h \in Hooks, SendHookCallRequest(h)
  PROVE  IndInv'
  <1>. USE DEF IndInv
  <1>. DEFINE m == [Message(Request(h), vm.nonce + 1) EXCEPT !.schedule = vm.schedule]
  <1>1. /\ process = "running" /\ vm.pc = "run" /\ vm.calls < MaxHookCalls
        /\ UNCHANGED <<nodeVars, process, toVM>>
    BY DEF SendHookCallRequest, VMIs
  <1>2. vm' = [vm EXCEPT !.pc = "hook", !.hook = h, !.nonce = vm.nonce + 1, !.calls = vm.calls + 1]
    BY DEF SendHookCallRequest, NextNonce
  <1>3. toNode' = Append(toNode, m) BY DEF SendHookCallRequest, NextNonce
  <1>4. PICK c \in Caller : /\ pc[c] = "loop" /\ Dialogue(c)
                           /\ \A d \in Caller : pc[d] = "loop" => d = c
    BY <1>1, InDialogue DEF AtRest
  <1>5. Running(c)
    BY <1>1, <1>4 DEF Dialogue, RequestSent, HookCalled, HookAnswered, Answered
  <1>6. /\ vm.nonce = 2 * vm.calls + 1 /\ part.nonce = vm.nonce
        /\ toVM = <<>> /\ toNode = <<>> /\ InContract(c)
    BY <1>5 DEF Running
  <1>7. vm \in VMParts BY DEF TypeOK
  <1>8. vm.calls \in 0 .. MaxHookCalls /\ vm.schedule \in 0 .. MaxOperations
    BY ONLY <1>7 DEF VMParts
  <1>9. /\ vm.calls + 1 \in 0 .. MaxHookCalls /\ vm.nonce + 1 = 2 * (vm.calls + 1)
        /\ vm.nonce + 1 \in 1 .. 2 * MaxHookCalls + 2
        /\ vm.nonce + 1 \in 0 .. 2 * MaxHookCalls + 3
        /\ vm.nonce = (vm.nonce + 1) - 1
    BY <1>1, <1>6, <1>8, Bounds
  <1>10. /\ vm' \in VMParts /\ vm'.schedule = vm.schedule /\ vm'.pc = "hook"
         /\ vm'.nonce = vm.nonce + 1 /\ vm'.hook = h /\ vm'.calls = vm.calls + 1
         /\ vm'.id = vm.id /\ vm'.request = vm.request /\ vm'.silent = vm.silent
    BY ONLY <1>2, <1>7, <1>9, h \in Hooks DEF VMParts
  <1>11. h \in AllHooks BY IPCAssumption DEF Gateway
  <1>12. m \in FromVM BY <1>8, <1>9, <1>11, HookCallTypes
  <1>13. m.kind = Request(h) /\ m.nonce = vm.nonce + 1 /\ m.schedule = vm.schedule
    BY DEF Message
  <1>. HIDE DEF m
  <1>14. m \in Messages BY <1>12 DEF FromVM
  <1>15. toNode' \in Seq(FromVM) /\ toNode' \in Seq(Messages) /\ Len(toNode') = 1 /\ toNode'[1] = m
    BY <1>3, <1>6, <1>12, <1>14, AppendToEmpty
  <1>16. UNCHANGED <<operation, part>> BY <1>1 DEF nodeVars, callerVars
  <1>17. HookCalled(c)'
    BY <1>1, <1>6, <1>9, <1>10, <1>13, <1>15, <1>16 DEF HookCalled, InContract
  <1>18. toVM' \in Seq(Messages) BY <1>1, <1>6
  <1>. QED BY <1>1, <1>4, <1>10, <1>15, <1>17, <1>18, VMStepInd DEF Dialogue

LEMMA ReceiveHookCallResponseStep ==
  ASSUME IndInv, ReceiveHookCallResponse
  PROVE  IndInv'
  <1>. USE DEF IndInv
  <1>. DEFINE m == Head(toVM)
              got == GatewayResult(vm.hook, TRUE, m.kind, m.outcome)
  <1>1. /\ process = "running" /\ vm.pc = "hook" /\ toVM # <<>> /\ toVM' = Tail(toVM)
        /\ UNCHANGED <<nodeVars, process, toNode>>
    BY DEF ReceiveHookCallResponse, VMIs
  <1>2. /\ toVM' \in Seq(Messages) /\ m = toVM[1] /\ m \in Messages
        /\ Len(toVM) = 1 => toVM' = <<>>
    BY <1>1, HeadAndTail DEF TypeOK
  <1>3. PICK c \in Caller : /\ pc[c] = "loop" /\ Dialogue(c)
                           /\ \A d \in Caller : pc[d] = "loop" => d = c
    BY <1>1, InDialogue DEF AtRest
  <1>4. HookAnswered(c)
    BY <1>1, <1>3 DEF Dialogue, RequestSent, Running, HookCalled, Answered
  <1>5. /\ vm.nonce = 2 * vm.calls /\ part.nonce = vm.nonce + 1 /\ vm.hook \in Hooks
        /\ toNode = <<>> /\ toVM' = <<>> /\ InContract(c) /\ IsHookCall(Request(vm.hook))
        /\ m.nonce = vm.nonce + 1 /\ [kind |-> m.kind, outcome |-> m.outcome] \in Replies(vm.hook)
    BY <1>2, <1>4 DEF HookAnswered
  <1>6. vm' = [vm EXCEPT !.pc = "run", !.hook = "", !.nonce = m.nonce,
                         !.silent = \/ vm.silent \/ got = "default"
                                    \/ got = "answer" /\ m.outcome = "error"]
    BY <1>5 DEF ReceiveHookCallResponse, InSequence
  <1>7. got # "default" /\ ~(got = "answer" /\ m.outcome = "error")
    <2>. HIDE DEF m
    <2>1. vm.hook \in AllHooks BY <1>5, IPCAssumption DEF Gateway
    <2>2. vm.hook # "RevertToSnapshot" BY <1>5, <2>1, HooksAreNotFinal
    <2>. DEFINE r == [kind |-> m.kind, outcome |-> m.outcome]
    <2>3. r \in Replies(vm.hook) BY <1>5
    <2>4. r.kind = m.kind /\ r.outcome = m.outcome OBVIOUS
    <2>. HIDE DEF r
    <2>. QED BY <2>1, <2>2, <2>3, <2>4, FailuresAreReported
  <1>. HIDE DEF m, got
  <1>8. vm \in VMParts BY DEF TypeOK
  <1>9. vm.calls \in 0 .. MaxHookCalls BY ONLY <1>8 DEF VMParts
  <1>10. /\ m.nonce \in 0 .. 2 * MaxHookCalls + 3 /\ m.nonce = 2 * vm.calls + 1
         /\ part.nonce = m.nonce
    BY <1>5, <1>9, Bounds
  <1>11. ~vm.silent BY <1>5 DEF InContract
  <1>12. vm' = [vm EXCEPT !.pc = "run", !.hook = "", !.nonce = m.nonce, !.silent = FALSE]
    BY <1>6, <1>7, <1>11
  <1>13. /\ vm' \in VMParts /\ vm'.schedule = vm.schedule /\ vm'.pc = "run"
         /\ vm'.nonce = m.nonce /\ vm'.calls = vm.calls
         /\ vm'.id = vm.id /\ vm'.request = vm.request /\ vm'.silent = FALSE
    BY ONLY <1>8, <1>10, <1>12 DEF VMParts
  <1>14. UNCHANGED <<operation, part>> BY <1>1 DEF nodeVars, callerVars
  <1>15. Running(c)'
    BY <1>1, <1>5, <1>10, <1>13, <1>14 DEF Running, InContract
  <1>16. toNode' \in Seq(FromVM) /\ toNode' \in Seq(Messages) BY <1>1, <1>5
  <1>. QED BY <1>1, <1>2, <1>3, <1>13, <1>15, <1>16, VMStepInd DEF Dialogue

LEMMA SendContractResponseStep ==
  ASSUME IndInv, SendContractResponse
  PROVE  IndInv'
  <1>. USE DEF IndInv
  <1>. DEFINE m == [Message(AnswerTo(vm.request), vm.nonce + 1)
                       EXCEPT !.id = vm.id, !.schedule = vm.schedule, !.silent = vm.silent]
  <1>1. /\ process = "running" /\ vm.pc = "run" /\ UNCHANGED <<nodeVars, process, toVM>>
    BY DEF SendContractResponse, VMIs
  <1>2. toNode' = Append(toNode, m) BY DEF SendContractResponse, NextNonce
  <1>3. PICK c \in Caller : /\ pc[c] = "loop" /\ Dialogue(c)
                           /\ \A d \in Caller : pc[d] = "loop" => d = c
    BY <1>1, InDialogue DEF AtRest
  <1>4. Running(c)
    BY <1>1, <1>3 DEF Dialogue, RequestSent, HookCalled, HookAnswered, Answered
  <1>5. /\ vm.nonce = 2 * vm.calls + 1 /\ part.nonce = vm.nonce
        /\ toVM = <<>> /\ toNode = <<>>
        /\ vm.request = operation[c].kind /\ vm.id = operation[c].id /\ ~vm.silent
        /\ operation[c].kind # "GasScheduleChange"
    BY <1>4 DEF Running, InContract
  <1>6. vm \in VMParts /\ operation[c].kind \in NodeRequests
    BY <1>3 DEF TypeOK, OperationInv
  <1>7. /\ vm.calls \in 0 .. MaxHookCalls /\ vm.schedule \in 0 .. MaxOperations
        /\ vm.id \in 0 .. MaxOperations /\ vm.silent \in BOOLEAN
    BY ONLY <1>6 DEF VMParts
  <1>8. vm.nonce + 1 \in 1 .. 2 * MaxHookCalls + 2 BY <1>5, <1>7, Bounds
  <1>9. m \in FromVM BY <1>5, <1>6, <1>7, <1>8, AnswerTypes
  <1>10. /\ m.kind = AnswerTo(vm.request) /\ m.nonce = vm.nonce + 1 /\ m.id = vm.id
         /\ m.schedule = vm.schedule /\ m.silent = vm.silent
    BY DEF Message
  <1>. HIDE DEF m
  <1>11. m \in Messages BY <1>9 DEF FromVM
  <1>12. toNode' \in Seq(FromVM) /\ toNode' \in Seq(Messages) /\ Len(toNode') = 1 /\ toNode'[1] = m
    BY <1>2, <1>5, <1>9, <1>11, AppendToEmpty
  <1>13. /\ vm' \in VMParts /\ vm'.schedule = vm.schedule /\ vm'.pc = "receive" /\ vm'.nonce = 0
    <2>1. vm' = [NewVMPart(vm.schedule) EXCEPT !.pc = "receive"] BY DEF SendContractResponse
    <2>2. NewVMPart(vm.schedule) \in VMParts BY <1>7, NewVMPartType
    <2>3. NewVMPart(vm.schedule).schedule = vm.schedule /\ NewVMPart(vm.schedule).nonce = 0
      BY DEF NewVMPart
    <2>. QED BY ONLY <2>1, <2>2, <2>3 DEF VMParts
  <1>14. UNCHANGED <<operation, part>> BY <1>1 DEF nodeVars, callerVars
  <1>15. Answered(c)'
    BY <1>1, <1>5, <1>10, <1>12, <1>13, <1>14 DEF Answered
  <1>16. toVM' \in Seq(Messages) BY <1>1, <1>5
  <1>. QED BY <1>1, <1>3, <1>12, <1>13, <1>15, <1>16, VMStepInd DEF Dialogue

LEMMA FaultStep ==
  ASSUME IndInv, Crash \/ CloseDriver
  PROVE  IndInv'
  <1>1. process' \in {"zombie", "reaped"} BY DEF Crash, CloseDriver, Close
  <1>2. UNCHANGED <<pc, operation, result, operationsMutex, gasSchedule, lastSchedule,
                    part, remaining, toVM, toNode, vm, compiled, issued>>
    BY DEF Crash, CloseDriver, callerVars, driverVars
  <1>3. faults' \in 0 .. MaxFaults
    <2>1. faults \in 0 .. MaxFaults BY DEF IndInv, TypeOK
    <2>2. faults < MaxFaults /\ faults' = faults + 1 BY DEF Crash, CloseDriver
    <2>. QED BY ONLY <2>1, <2>2, Bounds
  <1>4. toVM' \in Seq(Messages) BY <1>2 DEF IndInv, TypeOK
  <1>. QED BY <1>1, <1>2, <1>3, <1>4, ProcessEnds

LEMMA StutterStep ==
  ASSUME IndInv, UNCHANGED vars
  PROVE  IndInv'
  <1>. USE DEF IndInv
  <1>1. TypeOK' /\ toNode' \in Seq(FromVM)' BY DEF TypeOK, vars
  <1>2. MutexInv' /\ OperationInv' /\ PartInv' /\ ScheduleInv'
    BY DEF MutexInv, OperationInv, PartInv, ScheduleInv, vars
  <1>3. DialogueInv' BY DialogueGoesOn DEF DialogueInv, AtRest, vars
  <1>. QED BY <1>1, <1>2, <1>3

LEMMA NextIndInv == IndInv /\ [Next]_vars => IndInv'
  <1>. SUFFICES ASSUME IndInv, [Next]_vars PROVE IndInv' OBVIOUS
  <1>1. ASSUME NEW c \in Caller, CallerStep(c) PROVE IndInv' BY <1>1, CallerStepInd
  <1>2. ASSUME NEW c \in Caller, NEW kind \in Operations, Call(c, kind) PROVE IndInv'
    BY <1>2, CallStep
  <1>3. CASE VMStep
    BY <1>3, ReceiveNodeRequestStep, ReceiveHookCallResponseStep, SendContractResponseStep,
       SendHookCallRequestStep DEF VMStep
  <1>4. CASE Crash \/ CloseDriver BY <1>4, FaultStep
  <1>5. CASE UNCHANGED vars BY <1>5, StutterStep
  <1>. QED BY <1>1, <1>2, <1>3, <1>4, <1>5 DEF Next

\* What the dialogue says of the pipes and of the nonces.
LEMMA IndInvProperties ==
  ASSUME IndInv
  PROVE  OneMessageUnderWay /\ DialoguesStartFresh
  <1>. USE DEF IndInv
  <1>1. ASSUME process = "running" PROVE Len(toVM) + Len(toNode) <= 1
    <2>1. CASE AtRest BY <2>1, EmptySeq DEF AtRest
    <2>2. CASE ~AtRest
      <3>1. PICK c \in Caller : Dialogue(c) BY <1>1, <2>2, InDialogue
      <3>2. \/ toVM = <<>> /\ toNode = <<>>
            \/ Len(toVM) = 1 /\ toNode = <<>>
            \/ toVM = <<>> /\ Len(toNode) = 1
        BY <3>1 DEF Dialogue, RequestSent, Running, HookCalled, HookAnswered, Answered
      <3>. QED BY <3>2, EmptySeq
    <2>. QED BY <2>1, <2>2
  <1>2. ASSUME NEW c \in Caller, pc[c] = "send", process = "running"
        PROVE  part.nonce = 0 /\ AtRest
    BY <1>2, OnlyOneInside DEF PartInv, DialogueInv
  <1>. QED BY <1>1, <1>2 DEF OneMessageUnderWay, DialoguesStartFresh, AtRest

\* At most one message is under way between the node and a running VM, and
\* nonces and the time left stay in their ranges, whatever the callers, the
\* hooks and the faults are: the mutex of vmDriver.go makes the dialogues of
\* part.go follow each other.
THEOREM OneMessageUnderWayTheorem == Spec => []OneMessageUnderWay
  <1>1. IndInv => OneMessageUnderWay BY IndInvProperties
  <1>. QED BY <1>1, InitIndInv, NextIndInv, PTL DEF Spec

\* A request finds both parts reset and the pipes empty, after any end of an
\* earlier operation: an answer, an error, a crash, a restart.
THEOREM DialoguesStartFreshTheorem == Spec => []DialoguesStartFresh
  <1>1. IndInv => DialoguesStartFresh BY IndInvProperties
  <1>. QED BY <1>1, InitIndInv, NextIndInv, PTL DEF Spec

-----------------------------------------------------------------------------
(* Answers *)

\* A message that the loop of caller c can find: a hook call, or the answer
\* to its own operation.
Expected(c, m) ==
    \/ \E h \in Hooks : m.kind = Request(h)
    \/ /\ m.id = operation[c].id /\ m.schedule = lastSchedule /\ ~m.silent

\* What a VM has sent before it ended is still in the pipe: the node reads it
\* when the process is a zombie, or reaped by somebody who closed the driver.
PipeInv ==
    /\ process \in {"running", "zombie"} /\ (\A c \in Caller : pc[c] # "loop") => toNode = <<>>
    /\ \A c \in Caller : pc[c] = "send" => toNode = <<>>
    /\ \A c \in Caller : pc[c] = "loop" =>
          Len(toNode) <= 1 /\ (toNode # <<>> => Expected(c, toNode[1]))

LEMMA PipeInvOfRunning == IndInv /\ process = "running" => PipeInv
  <1>. SUFFICES ASSUME IndInv, process = "running" PROVE PipeInv OBVIOUS
  <1>. USE DEF IndInv
  <1>1. ASSUME NEW c \in Caller, pc[c] = "send" PROVE toNode = <<>>
    BY <1>1, OnlyOneInside DEF DialogueInv, AtRest
  <1>2. ASSUME NEW c \in Caller, pc[c] = "loop"
        PROVE  Len(toNode) <= 1 /\ (toNode # <<>> => Expected(c, toNode[1]))
    <2>1. Dialogue(c) BY <1>2 DEF DialogueInv
    <2>2. CASE toNode = <<>> BY <2>2, EmptySeq
    <2>3. CASE HookCalled(c) BY <2>3 DEF HookCalled, Expected
    <2>4. CASE Answered(c)
      <3>1. operationsMutex = c BY <1>2, OnlyOneInside
      <3>2. vm.schedule = lastSchedule BY <2>4, <3>1 DEF ScheduleInv, Answered
      <3>. QED BY <2>4, <3>2 DEF Answered, Expected
    <2>. QED BY <2>1, <2>2, <2>3, <2>4 DEF Dialogue, RequestSent, Running, HookAnswered
  <1>. QED BY <1>1, <1>2 DEF PipeInv, DialogueInv, AtRest

\* Steps that leave the pipes and what they are compared with alone.
LEMMA PipeInvGoesOn ==
  ASSUME PipeInv, UNCHANGED <<toNode, lastSchedule>>,
         process' \in {"running", "zombie"} => process \in {"running", "zombie"},
         \A c \in Caller : pc[c] = "loop" => pc'[c] = "loop",
         \A c \in Caller : pc'[c] \in {"send", "loop"} =>
                            pc'[c] = pc[c] /\ operation'[c] = operation[c]
  PROVE  PipeInv'
  BY DEF PipeInv, Expected

LEMMA CallerStepPipeInv ==
  ASSUME IndInv, PipeInv, NEW c \in Caller, CallerStep(c), process' # "running"
  PROVE  PipeInv'
  <1>. USE DEF IndInv
  <1>2. CASE Lock(c)
    <2>1. /\ UNCHANGED <<operation, process, toNode>> /\ pc[c] = "lock" /\ pc'[c] = "restart"
          /\ \A d \in Caller : d # c => pc'[d] = pc[d]
          /\ operationsMutex = Nobody
      BY <1>2 DEF Lock, TypeOK
    <2>2. \A d \in Caller : pc'[d] \notin {"send", "loop"} /\ pc[d] # "loop"
      BY <2>1, Bounds DEF MutexInv
    <2>. QED BY <2>1, <2>2 DEF PipeInv
  <1>3. CASE RestartVMIfNecessary(c)
    <2>1. ~IsClosed /\ pc[c] = "restart" /\ process # "nil"
      BY <1>3 DEF RestartVMIfNecessary, StartVM
    <2>2. process \in {"running", "zombie"} BY <2>1 DEF IsClosed, TypeOK
    <2>3. \A d \in Caller : pc[d] # "loop" BY <2>1, OnlyOneInside
    <2>4. toNode = <<>> BY <2>2, <2>3 DEF PipeInv
    <2>5. UNCHANGED toNode BY <1>3, <2>1 DEF RestartVMIfNecessary
    <2>6. \A d \in Caller : pc'[d] # "loop" BY <1>3, <2>3 DEF RestartVMIfNecessary, TypeOK
    <2>. QED BY <2>4, <2>5, <2>6 DEF PipeInv
  <1>4. CASE StartVMFails(c)
    <2>1. toNode' = <<>> BY <1>4 DEF StartVMFails, StartVM
    <2>. QED BY <2>1, EmptySeq DEF PipeInv
  <1>5. CASE PanicInIsClosed(c)
    <2>1. pc[c] = "restart" /\ pc'[c] = "idle" /\ \A d \in Caller : d # c => pc'[d] = pc[d]
      BY <1>5 DEF PanicInIsClosed, EndWith, TypeOK
    <2>2. \A d \in Caller : pc'[d] \notin {"send", "loop"} BY <2>1, OnlyOneInside
    <2>3. process' = "nil" BY <1>5 DEF PanicInIsClosed
    <2>. QED BY <2>2, <2>3 DEF PipeInv
  <1>6. CASE SendContractRequest(c)
    <2>1. pc[c] = "send" /\ toNode = <<>> /\ toNode' = <<>>
      BY <1>6 DEF SendContractRequest, PipeInv
    <2>. QED BY <2>1, EmptySeq DEF PipeInv
  <1>7. ASSUME NEW status, EndLoopWithError(c, status), pc[c] = "loop" PROVE PipeInv'
    <2>1. process' \in {"reaped", "nil"} BY <1>7, CloseStops DEF EndLoopWithError
    <2>2. pc'[c] = "idle" /\ \A d \in Caller : d # c => pc'[d] = pc[d]
      BY <1>7 DEF EndLoopWithError, EndWith, TypeOK
    <2>3. \A d \in Caller : pc'[d] \notin {"send", "loop"} BY <1>7, <2>2, OnlyOneInside
    <2>. QED BY <2>1, <2>3 DEF PipeInv
  <1>8. CASE ReceiveHookCallRequestOrContractResponse(c)
    <2>1. /\ pc[c] = "loop" /\ toNode # <<>> /\ toNode' = Tail(toNode)
      BY <1>8 DEF ReceiveHookCallRequestOrContractResponse
    <2>2. Len(toNode) = 1
      <3>1. Len(toNode) <= 1 BY <2>1 DEF PipeInv
      <3>2. Len(toNode) \in Nat \ {0} BY <2>1, EmptySeq
      <3>. DEFINE n == Len(toNode)
      <3>3. n \in Nat \ {0} /\ n <= 1 BY <3>1, <3>2
      <3>. HIDE DEF n
      <3>4. n = 1 BY <3>3
      <3>. QED BY <3>4 DEF n
    <2>3. toNode' = <<>> BY <2>1, <2>2, HeadAndTail
    <2>. QED BY <2>3, EmptySeq DEF PipeInv
  <1>9. CASE Timeout(c) BY <1>7, <1>9 DEF Timeout
  <1>. QED BY <1>2, <1>3, <1>4, <1>5, <1>6, <1>8, <1>9 DEF CallerStep

LEMMA NextPipeInv == IndInv /\ PipeInv /\ [Next]_vars => PipeInv'
  <1>. SUFFICES ASSUME IndInv, PipeInv, [Next]_vars PROVE PipeInv' OBVIOUS
  <1>1. IndInv' BY NextIndInv
  <1>2. (IndInv /\ process = "running" => PipeInv)' BY PipeInvOfRunning, PTL
  <1>3. CASE process' = "running" BY <1>1, <1>2, <1>3
  <1>4. CASE process' # "running"
    <2>1. ASSUME NEW c \in Caller, CallerStep(c) PROVE PipeInv'
      BY <1>4, <2>1, CallerStepPipeInv
    <2>2. ASSUME NEW c \in Caller, NEW kind \in Operations, Call(c, kind) PROVE PipeInv'
      <3>1. UNCHANGED <<toNode, lastSchedule, process>> BY <2>2 DEF Call, driverVars
      <3>2. /\ pc[c] = "idle" /\ pc'[c] = "lock"
            /\ \A d \in Caller : d # c => pc'[d] = pc[d] /\ operation'[d] = operation[d]
        BY <2>2 DEF Call, IndInv, TypeOK
      <3>. QED BY <3>1, <3>2, PipeInvGoesOn
    <2>3. CASE VMStep \/ Crash \/ CloseDriver \/ UNCHANGED vars
      <3>1. UNCHANGED <<toNode, lastSchedule, pc, operation>>
        BY <1>4, <2>3 DEF VMStep, ReceiveNodeRequest, ReceiveHookCallResponse,
           SendContractResponse, SendHookCallRequest, VMIs, Exit, Crash, CloseDriver,
           nodeVars, callerVars, driverVars, vars
      <3>2. process' \in {"running", "zombie"} => process \in {"running", "zombie"}
        BY <1>4, <2>3 DEF VMStep, ReceiveNodeRequest, ReceiveHookCallResponse,
           SendContractResponse, SendHookCallRequest, VMIs, Exit, Crash, CloseDriver,
           nodeVars, vars
      <3>. QED BY <3>1, <3>2, PipeInvGoesOn
    <2>. QED BY <2>1, <2>2, <2>3 DEF Next
  <1>. QED BY <1>3, <1>4

\* A failure is no answer.
LEMMA FailuresAreNoAnswers ==
  ASSUME AnswersAreRight, TypeOK, NEW c \in Caller, NEW status, status # "ok",
         EndWith(c, Failure(c, status))
  PROVE  AnswersAreRight'
  <1>1. Failure(c, status).status # "ok" BY DEF Failure, NoResult
  <1>. DEFINE res == Failure(c, status)
  <1>2. result' = [result EXCEPT ![c] = res] BY DEF EndWith
  <1>3. res.status # "ok" BY <1>1
  <1>. HIDE DEF res
  <1>. QED BY <1>2, <1>3 DEF AnswersAreRight, TypeOK

LEMMA NextAnswers == IndInv /\ PipeInv /\ AnswersAreRight /\ [Next]_vars => AnswersAreRight'
  <1>. SUFFICES ASSUME IndInv, PipeInv, AnswersAreRight, [Next]_vars PROVE AnswersAreRight'
    OBVIOUS
  <1>. USE DEF IndInv
  <1>1. ASSUME UNCHANGED result PROVE AnswersAreRight' BY <1>1 DEF AnswersAreRight
  <1>2. ASSUME NEW c \in Caller, CallerStep(c) PROVE AnswersAreRight'
    <2>1. ASSUME NEW status \in Outcomes \ {"ok"}, EndLoopWithError(c, status)
          PROVE  AnswersAreRight'
      BY <2>1, FailuresAreNoAnswers DEF EndLoopWithError
    <2>2. CASE Lock(c) \/ RestartVMIfNecessary(c)
      BY <1>1, <2>2 DEF Lock, RestartVMIfNecessary
    <2>3. CASE StartVMFails(c) BY <2>3, FailuresAreNoAnswers DEF StartVMFails
    <2>4. CASE PanicInIsClosed(c) BY <2>4, FailuresAreNoAnswers DEF PanicInIsClosed
    <2>5. CASE SendContractRequest(c)
      BY <1>1, <2>5, FailuresAreNoAnswers DEF SendContractRequest
    <2>6. CASE Timeout(c)
      <3>1. "time expired" \in Outcomes \ {"ok"} BY DEF Outcomes
      <3>. QED BY <2>1, <2>6, <3>1 DEF Timeout
    <2>7. CASE ReceiveHookCallRequestOrContractResponse(c)
      <3>. DEFINE m == Head(toNode)
      <3>1. pc[c] = "loop" /\ toNode # <<>>
        BY <2>7 DEF ReceiveHookCallRequestOrContractResponse
      <3>2. \/ \E status \in Outcomes \ {"ok"} : EndLoopWithError(c, status)
            \/ \E left : ReplyToHookCall(m, left)
            \/ IsFinalResponse(m.kind) /\ EndLoopWithAnswer(c, m)
        BY <2>7 DEF ReceiveHookCallRequestOrContractResponse, Outcomes
      <3>3. ASSUME IsFinalResponse(m.kind), EndLoopWithAnswer(c, m) PROVE AnswersAreRight'
        <4>1. m = toNode[1] BY <3>1, HeadAndTail
        <4>2. Expected(c, m) BY <3>1, <4>1 DEF PipeInv
        <4>3. Hooks \subseteq AllHooks BY IPCAssumption DEF Gateway
        <4>4. m.id = operation[c].id /\ m.schedule = lastSchedule /\ ~m.silent
          BY <3>3, <4>2, <4>3, HooksAreNotFinal DEF Expected
        <4>. HIDE DEF m
        <4>5. result' = [result EXCEPT ![c] =
                 [status |-> "ok", asked |-> operation[c].id, answered |-> m.id,
                  expected |-> lastSchedule, schedule |-> m.schedule, silent |-> m.silent]]
          BY <3>3 DEF EndLoopWithAnswer, EndWith
        <4>. QED BY <4>4, <4>5 DEF AnswersAreRight, TypeOK
      <3>4. ASSUME NEW left, ReplyToHookCall(m, left) PROVE AnswersAreRight'
        BY <1>1, <3>4 DEF ReplyToHookCall, callerVars
      <3>. QED BY <2>1, <3>2, <3>3, <3>4
    <2>. QED BY <1>2, <2>2, <2>3, <2>4, <2>5, <2>6, <2>7 DEF CallerStep
  <1>3. ASSUME NEW c \in Caller, NEW kind \in Operations, Call(c, kind) PROVE AnswersAreRight'
    BY <1>1, <1>3 DEF Call
  <1>4. CASE VMStep \/ Crash \/ CloseDriver \/ UNCHANGED vars
    BY <1>1, <1>4 DEF VMStep, ReceiveNodeRequest, ReceiveHookCallResponse, SendContractResponse,
       SendHookCallRequest, Crash, CloseDriver, nodeVars, callerVars, vars
  <1>. QED BY <1>2, <1>3, <1>4 DEF Next

\* The answer that a caller gets is the answer to its own request, computed
\* with the schedule of the last GasScheduleChange by a contract that no hook
\* has deceived: not one that a timeout left in the pipe, not one of a VM that
\* crashed or was closed in between.
THEOREM AnswersAreRightTheorem == Spec => []AnswersAreRight
  <1>1. Init => AnswersAreRight BY DEF Init, AnswersAreRight, NoResult
  <1>2. Init => process = "running" BY DEF Init
  <1>3. Init => PipeInv BY <1>2, InitIndInv, PipeInvOfRunning
  <1>. QED BY <1>1, <1>3, InitIndInv, NextIndInv, NextPipeInv, NextAnswers, PTL DEF Spec

-----------------------------------------------------------------------------
(* Compiled code *)

LEMMA NextCompiled == IndInv /\ CompiledCodeIsCurrent /\ [Next]_vars => CompiledCodeIsCurrent'
  <1>. SUFFICES ASSUME IndInv, CompiledCodeIsCurrent, [Next]_vars
                PROVE  CompiledCodeIsCurrent'
    OBVIOUS
  <1>. USE DEF IndInv, CompiledCodeIsCurrent
  <1>1. ASSUME UNCHANGED <<process, compiled>>, vm'.schedule = vm.schedule, part'.open = part.open
        PROVE  CompiledCodeIsCurrent'
    BY <1>1
  <1>2. ASSUME process' # "running" \/ ~part'.open PROVE CompiledCodeIsCurrent' BY <1>2
  <1>3. ASSUME NEW c \in Caller, CallerStep(c) PROVE CompiledCodeIsCurrent'
    <2>1. ASSUME NEW status, EndLoopWithError(c, status) PROVE CompiledCodeIsCurrent'
      BY <1>2, <2>1, CloseStops DEF EndLoopWithError
    <2>2. ASSUME StartVM PROVE CompiledCodeIsCurrent' BY <2>2 DEF StartVM
    <2>3. CASE Lock(c) \/ PanicInIsClosed(c)
      BY <1>1, <2>3 DEF Lock, PanicInIsClosed
    <2>4. CASE RestartVMIfNecessary(c)
      BY <1>1, <2>2, <2>4 DEF RestartVMIfNecessary
    <2>5. CASE StartVMFails(c)
      <3>1. StartVM \/ part' = [part EXCEPT !.open = FALSE] BY <2>5 DEF StartVMFails
      <3>2. part' = [part EXCEPT !.open = FALSE] => ~part'.open BY DEF TypeOK
      <3>. QED BY <1>2, <2>2, <3>1, <3>2
    <2>6. CASE SendContractRequest(c)
      <3>1. CASE part.open
        <4>1. part' = [part EXCEPT !.nonce = NextNonce(@)] /\ UNCHANGED <<process, vm, compiled>>
          BY <2>6, <3>1 DEF SendContractRequest
        <4>2. part'.open = part.open BY <4>1 DEF TypeOK
        <4>. QED BY <1>1, <4>1, <4>2
      <3>2. CASE ~part.open BY <1>2, <2>6, <3>2, CloseStops DEF SendContractRequest
      <3>. QED BY <3>1, <3>2
    <2>7. CASE Timeout(c) BY <2>1, <2>7 DEF Timeout
    <2>8. CASE ReceiveHookCallRequestOrContractResponse(c)
      <3>. DEFINE m == Head(toNode)
      <3>1. pc[c] = "loop" /\ toNode # <<>> /\ UNCHANGED vm
        BY <2>8 DEF ReceiveHookCallRequestOrContractResponse
      <3>2. \/ \E status \in Outcomes : EndLoopWithError(c, status)
            \/ \E left : ReplyToHookCall(m, left) /\ IsHookCall(m.kind)
            \/ EndLoopWithAnswer(c, m)
        BY <2>8 DEF ReceiveHookCallRequestOrContractResponse, Outcomes
      <3>3. CASE EndLoopWithAnswer(c, m)
        <4>1. part' = [part EXCEPT !.nonce = 0] /\ UNCHANGED <<process, compiled>>
          BY <3>3 DEF EndLoopWithAnswer
        <4>2. part'.open = part.open BY <4>1 DEF TypeOK
        <4>. QED BY <1>1, <3>1, <4>1, <4>2
      <3>4. ASSUME NEW left, ReplyToHookCall(m, left), IsHookCall(m.kind)
            PROVE  CompiledCodeIsCurrent'
        <4>1. part' = [part EXCEPT !.nonce = NextNonce(m.nonce)] /\ UNCHANGED process
          BY <3>4 DEF ReplyToHookCall
        <4>2. part'.open = part.open BY <4>1 DEF TypeOK
        <4>3. compiled' \subseteq compiled \cup {m.schedule}
          BY <3>4 DEF ReplyToHookCall, ServeCompiledCode
        <4>4. ASSUME process = "running" PROVE m.schedule = vm.schedule
          <5>1. m = toNode[1] BY <3>1, HeadAndTail
          <5>2. Dialogue(c) BY <3>1, <4>4 DEF DialogueInv
          <5>. QED BY <3>1, <5>1, <5>2
               DEF Dialogue, RequestSent, Running, HookCalled, HookAnswered, Answered
        <4>. HIDE DEF m
        <4>. QED BY <3>1, <4>1, <4>2, <4>3, <4>4
      <3>. QED BY <2>1, <3>2, <3>3, <3>4
    <2>. QED BY <1>3, <2>3, <2>4, <2>5, <2>6, <2>7, <2>8 DEF CallerStep
  <1>4. ASSUME NEW c \in Caller, NEW kind \in Operations, Call(c, kind)
        PROVE  CompiledCodeIsCurrent'
    BY <1>1, <1>4 DEF Call
  <1>5. CASE VMStep
    <2>1. UNCHANGED <<part, compiled>> BY <1>5 DEF VMStep, ReceiveNodeRequest,
            ReceiveHookCallResponse, SendContractResponse, SendHookCallRequest, nodeVars
    <2>2. CASE ReceiveNodeRequest
      <3>1. process' # "running" \/ (process' = process /\ vm'.schedule = vm.schedule)
        BY <1>2, <2>2 DEF ReceiveNodeRequest, Exit, TypeOK, VMParts
      <3>. QED BY <1>1, <2>1, <3>1
    <2>3. CASE ReceiveHookCallResponse
      BY <1>1, <2>1, <2>3 DEF ReceiveHookCallResponse, TypeOK, VMParts
    <2>4. CASE SendContractResponse
      BY <1>1, <2>1, <2>4 DEF SendContractResponse, NewVMPart
    <2>5. ASSUME NEW h \in Hooks, SendHookCallRequest(h) PROVE CompiledCodeIsCurrent'
      BY <1>1, <2>1, <2>5 DEF SendHookCallRequest, TypeOK, VMParts
    <2>. QED BY <1>5, <2>2, <2>3, <2>4, <2>5 DEF VMStep
  <1>6. CASE Crash \/ CloseDriver BY <1>2, <1>6 DEF Crash, CloseDriver, Close
  <1>7. CASE UNCHANGED vars BY <1>1, <1>7 DEF vars
  <1>. QED BY <1>3, <1>4, <1>5, <1>6, <1>7 DEF Next

\* The node's cache of compiled code never mixes the costs of two schedules
\* under a VM that it talks to: every start that opens the pipes clears it.
THEOREM CompiledCodeIsCurrentTheorem == Spec => []CompiledCodeIsCurrent
  <1>1. Init => CompiledCodeIsCurrent BY DEF Init, CompiledCodeIsCurrent
  <1>. QED BY <1>1, InitIndInv, NextIndInv, NextCompiled, PTL DEF Spec

=============================================================================
