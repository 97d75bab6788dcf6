---------------------------- MODULE IPCMessages -----------------------------
(***************************************************************************)
(* The messages of ipc/common between the node and the VM process: their   *)
(* kinds, the types that the factory creates for them when they are read   *)
(* from a pipe, and the blockchain hooks, which the VM process reaches     *)
(* through a gateway and the node serves with a replier each.              *)
(*                                                                         *)
(* A kind is a pair <<name, role>>.  Of a payload only its origin is kept: *)
(* the properties tell the node's own answer from a default the gateway    *)
(* makes up, not one value from another.                                   *)
(***************************************************************************)
EXTENDS Naturals, Sequences, Functions

Request(name) == <<name, "Request">>
Response(name) == <<name, "Response">>

\* The names in the order in which messages.go enumerates the kinds; where
\* there are two kinds of a name the request comes first.
MessageKinds ==
    << "Initialize", "Stop", "ContractDeploy", "ContractCall", "Contract",
       "GasScheduleChange", "NewAddress", "GetStorageData", "GetBlockhash",
       "LastNonce", "LastRound", "LastTimeStamp", "LastRandomSeed",
       "LastEpoch", "GetStateRootHash", "CurrentNonce", "CurrentRound",
       "CurrentTimeStamp", "CurrentRandomSeed", "CurrentEpoch",
       "ProcessBuiltinFunction", "GetESDTToken", "GetBuiltinFunctionNames",
       "GetAllState", "GetUserAccount", "GetCode", "GetShardOfAddress",
       "IsPayable", "IsSmartContract", "SaveCompiledCode", "GetCompiledCode",
       "DiagnoseWait", "Version", "ClearCompiledCodes", "GetSnapshot",
       "IsInterfaceNil", "RevertToSnapshot", "ProcessBuiltInFunction",
       "UndefinedRequestOrResponse" >>

Ordinal(kind) ==
    LET i == CHOOSE j \in DOMAIN MessageKinds : MessageKinds[j] = kind[1]
    IN 2 * i + IF kind[2] = "Request" THEN 0 ELSE 1

IsStopRequest(kind) == kind = Request("Stop")

IsHookCall(kind) ==
    /\ Ordinal(kind) >= Ordinal(Request("NewAddress"))
    /\ Ordinal(kind) <= Ordinal(Response("GetCompiledCode"))

IsDiagnose(kind) ==
    /\ Ordinal(kind) >= Ordinal(Request("DiagnoseWait"))
    /\ Ordinal(kind) <= Ordinal(Response("DiagnoseWait"))

\* What ends the loop of the node, IsVersionResponse and its like.
IsFinalResponse(kind) ==
    \/ kind \in {Response("Version"), Response("Contract"),
                 Response("GasScheduleChange")}
    \/ IsDiagnose(kind)

-----------------------------------------------------------------------------
(* Requests of the node and the answers of the VM part *)

\* NewMessageContractDeployRequest, NewMessageContractCallRequest,
\* NewMessageVersionRequest, NewMessageGasScheduleChangeRequest
ContractRequests == {"ContractDeploy", "ContractCall"}
NodeRequests == ContractRequests \cup {"Version", "GasScheduleChange", "DiagnoseWait"}

AnswerTo(request) ==
    IF request \in ContractRequests THEN Response("Contract") ELSE Response(request)

-----------------------------------------------------------------------------
(* The hooks, by the groups of their messages *)

AddressAndStorageMessages == {"NewAddress", "GetStorageData", "GetBlockhash"}

LastBlockMessages ==
    {"LastNonce", "LastRound", "LastTimeStamp", "LastRandomSeed", "LastEpoch"}

CurrentBlockMessages ==
    {"GetStateRootHash", "CurrentNonce", "CurrentRound", "CurrentTimeStamp",
     "CurrentRandomSeed", "CurrentEpoch"}

BuiltinMessages ==
    {"ProcessBuiltInFunction", "GetBuiltinFunctionNames", "GetAllState"}

AccountMessages ==
    {"GetUserAccount", "GetCode", "GetShardOfAddress", "IsPayable",
     "IsSmartContract"}

CompiledCodeMessages ==
    {"SaveCompiledCode", "GetCompiledCode", "ClearCompiledCodes"}

TokenAndSnapshotMessages ==
    {"GetESDTToken", "IsInterfaceNil", "GetSnapshot", "RevertToSnapshot"}

AllHooks ==
    AddressAndStorageMessages \cup LastBlockMessages \cup CurrentBlockMessages
        \cup BuiltinMessages \cup AccountMessages \cup CompiledCodeMessages
        \cup TokenAndSnapshotMessages

\* The hooks whose response carries an error beside the result.
HookMessagesWithError ==
    AddressAndStorageMessages
        \cup {"ProcessBuiltInFunction", "GetAllState", "GetUserAccount",
              "IsPayable", "GetESDTToken", "RevertToSnapshot"}

-----------------------------------------------------------------------------
(* The gateway of the VM process.  A hook that returns an error gives the  *)
(* host one when the call fails, and is in the set of its group.  Another  *)
(* gives it a zero value or nil, which the host cannot tell from an answer.*)

AddressAndStorageGateway == AddressAndStorageMessages

LastBlockGateway == {}

CurrentBlockGateway == {}

BuiltinGateway == BuiltinMessages \ {"GetBuiltinFunctionNames"}

AccountGateway == {"GetUserAccount", "IsPayable"}

CompiledCodeGateway == {}

TokenAndSnapshotGateway == {"GetESDTToken", "RevertToSnapshot"}

GatewayWithError ==
    AddressAndStorageGateway \cup LastBlockGateway \cup CurrentBlockGateway
        \cup BuiltinGateway \cup AccountGateway \cup CompiledCodeGateway
        \cup TokenAndSnapshotGateway

\* IsInterfaceNil never leaves the gateway.
Gateway ==
    [h \in AllHooks \ {"IsInterfaceNil"} |->
        IF h \in GatewayWithError THEN "error" ELSE "default"]

\* What the host gets of hook h: the node's answer, an error, or a silent
\* default.  The gateway returns the error of a response that carries one,
\* RevertToSnapshot excepted.
GatewayResult(h, received, kind, outcome) ==
    IF ~received \/ kind # Response(h) THEN Gateway[h]
    ELSE IF outcome = "error" /\ h \in HookMessagesWithError /\ h # "RevertToSnapshot" THEN "error"
    ELSE "answer"

-----------------------------------------------------------------------------
(* The factory: the type of the message that a kind is read into.  The     *)
(* kinds without a creator are read into an UndefinedMessage.              *)

NodeMessageCreators ==
    {Request("Initialize"), Request("Stop"), Response("Contract"),
     Request("ContractDeploy"), Request("ContractCall")}
        \cup {Request("DiagnoseWait"), Response("DiagnoseWait"),
              Request("Version"), Response("Version")}

BothKinds(hooks) == {Request(h) : h \in hooks} \cup {Response(h) : h \in hooks}

BlockMessageCreators ==
    BothKinds(AddressAndStorageMessages \cup LastBlockMessages \cup CurrentBlockMessages)

AccountMessageCreators ==
    BothKinds(BuiltinMessages \cup AccountMessages \cup CompiledCodeMessages
                \cup TokenAndSnapshotMessages)

messageCreators == NodeMessageCreators \cup BlockMessageCreators \cup AccountMessageCreators

\* A replier that asserts the type of its request panics on another one.
HasItsOwnType(kind) == kind \in messageCreators

-----------------------------------------------------------------------------
(* The repliers *)

\* NewNodePart: the slots of all the other kinds hold the noopReplier.
NodeRepliers == {Request(h) : h \in AllHooks}

\* NewVMPart
VMRepliers == {Request(r) : r \in NodeRequests}

\* The repliers that can answer with the error of the node's hook.
AddressAndStorageRepliers == AddressAndStorageMessages

LastBlockRepliers == {}

CurrentBlockRepliers == {}

BuiltinRepliers == BuiltinMessages \ {"GetBuiltinFunctionNames"}

AccountRepliers == {"GetUserAccount", "IsPayable"}

CompiledCodeRepliers == {}

TokenAndSnapshotRepliers == {"GetESDTToken", "RevertToSnapshot"}

RepliersWithError ==
    AddressAndStorageRepliers \cup LastBlockRepliers \cup CurrentBlockRepliers
        \cup BuiltinRepliers \cup AccountRepliers \cup CompiledCodeRepliers
        \cup TokenAndSnapshotRepliers

\* An account that the node does not know is answered with nil and no error.
HookOutcomes(h) ==
    {"result"} \cup (IF h \in RepliersWithError THEN {"error"} ELSE {})
               \cup (IF h = "GetUserAccount" THEN {"nil"} ELSE {})

\* The answers to a hook call; the noopReplier sends an undefined message.
noopReplier == [kind |-> Request("UndefinedRequestOrResponse"), outcome |-> "none"]

Replies(h) ==
    IF Request(h) \in NodeRepliers
    THEN {[kind |-> Response(h), outcome |-> o] : o \in HookOutcomes(h)}
    ELSE {noopReplier}
=============================================================================
