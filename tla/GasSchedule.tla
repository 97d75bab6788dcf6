----------------------------- MODULE GasSchedule ----------------------------
(***************************************************************************)
(* The gas schedule of config/: the sections and fields that a schedule    *)
(* must have, CreateGasConfig, which decodes and checks it, and the array  *)
(* of opcode costs that is handed to Wasmer.  The tables of opcodes.go, of *)
(* the struct, of the array and of FillGasMap_WASMOpcodeValues list the    *)
(* opcodes in the same order: an opcode is its number there, and so is its *)
(* field; the field without an opcode is LocalsUnmetered.                  *)
(*                                                                         *)
(* A schedule is a function from sections to functions from fields to      *)
(* costs; a field that a map leaves out is decoded as 0.                   *)
(***************************************************************************)
EXTENDS Integers, FiniteSets, TLC

CONSTANT Uint32Limit        \* 2^32: opcode costs are uint32, the others uint64

ASSUME GasScheduleAssumption == Uint32Limit \in Nat \ {0}

-----------------------------------------------------------------------------
(* wasmer/opcodes.go *)

ControlAndMemoryOpcodes == 0 .. 52      \* Unreachable .. RefFunc
NumericOpcodes == 53 .. 188             \* I32Eqz .. I64TruncSatF64U
BulkAndAtomicOpcodes == 189 .. 267      \* MemoryInit .. I64AtomicRmw32CmpxchgU
VectorAccessOpcodes == 268 .. 338       \* V128Load .. V128Bitselect
VectorMathOpcodes == 339 .. 447         \* I8x16Neg .. LocalAllocate

OPCODE_COUNT == 448
Opcodes == 0 .. OPCODE_COUNT - 1
LocalsUnmetered == OPCODE_COUNT

-----------------------------------------------------------------------------
(* config/gasCost.go: the fields *)

BaseOperationCost ==
    {"StorePerByte", "ReleasePerByte", "DataCopyPerByte", "PersistPerByte",
     "CompilePerByte", "AoTPreparePerByte", "GetCode"}

BaseOpsAPICost ==
    {"GetSCAddress", "GetOwnerAddress", "IsSmartContract", "GetShardOfAddress",
     "GetExternalBalance", "GetBlockHash", "TransferValue", "GetArgument",
     "GetFunction", "GetNumArguments", "StorageStore", "StorageLoad",
     "GetCaller", "GetCallValue", "Log", "Finish", "SignalError",
     "GetBlockTimeStamp", "GetGasLeft", "Int64GetArgument",
     "Int64StorageStore", "Int64StorageLoad", "Int64Finish",
     "GetStateRootHash", "GetBlockNonce", "GetBlockEpoch", "GetBlockRound",
     "GetBlockRandomSeed", "ExecuteOnSameContext", "ExecuteOnDestContext",
     "DelegateExecution", "ExecuteReadOnly", "AsyncCallStep",
     "AsyncCallbackGasLock", "CreateContract", "GetReturnData",
     "GetNumReturnData", "GetReturnDataSize"}

\* No API function charges these; a schedule must have them all the same.
EthAPICost ==
    {"UseGas", "GetAddress", "GetExternalBalance", "GetBlockHash", "Call",
     "CallDataCopy", "GetCallDataSize", "CallCode", "CallDelegate",
     "CallStatic", "StorageStore", "StorageLoad", "GetCaller",
     "GetCallValue", "CodeCopy", "GetCodeSize", "GetBlockCoinbase", "Create",
     "GetBlockDifficulty", "ExternalCodeCopy", "GetExternalCodeSize",
     "GetGasLeft", "GetBlockGasLimit", "GetTxGasPrice", "Log",
     "GetBlockNumber", "GetTxOrigin", "Finish", "Revert",
     "GetReturnDataSize", "ReturnDataCopy", "SelfDestruct",
     "GetBlockTimeStamp"}

BigIntAPICost ==
    {"BigIntNew", "BigIntUnsignedByteLength", "BigIntSignedByteLength",
     "BigIntGetUnsignedBytes", "BigIntGetSignedBytes",
     "BigIntSetUnsignedBytes", "BigIntSetSignedBytes", "BigIntIsInt64",
     "BigIntGetInt64", "BigIntSetInt64", "BigIntAdd", "BigIntSub",
     "BigIntMul", "BigIntTDiv", "BigIntTMod", "BigIntEDiv", "BigIntEMod",
     "BigIntAbs", "BigIntNeg", "BigIntSign", "BigIntCmp", "BigIntNot",
     "BigIntAnd", "BigIntOr", "BigIntXor", "BigIntShr", "BigIntShl",
     "BigIntFinishUnsigned", "BigIntFinishSigned",
     "BigIntStorageLoadUnsigned", "BigIntStorageStoreUnsigned",
     "BigIntGetUnsignedArgument", "BigIntGetSignedArgument",
     "BigIntGetCallValue", "BigIntGetExternalBalance"}

CryptoAPICost ==
    {"SHA256", "Keccak256", "Ripemd160", "VerifyBLS", "VerifyEd25519",
     "VerifySecp256k1"}

ControlAndMemoryFields == ControlAndMemoryOpcodes
NumericFields == NumericOpcodes
BulkAndAtomicFields == BulkAndAtomicOpcodes
VectorAccessFields == VectorAccessOpcodes
VectorMathFields == VectorMathOpcodes \cup {LocalsUnmetered}

WASMOpcodeCost ==
    ControlAndMemoryFields \cup NumericFields \cup BulkAndAtomicFields
        \cup VectorAccessFields \cup VectorMathFields

GasCost ==
    [BaseOperationCost |-> BaseOperationCost, BaseOpsAPICost |-> BaseOpsAPICost,
     BigIntAPICost |-> BigIntAPICost, EthAPICost |-> EthAPICost,
     CryptoAPICost |-> CryptoAPICost, WASMOpcodeCost |-> WASMOpcodeCost]

-----------------------------------------------------------------------------
(* config/gasSchedule.go *)

\* mapstructure.Decode (external) gives a field of 32 bits the low bits of
\* the value, without an error.
Decode(section, costs) ==
    [f \in GasCost[section] |->
        IF section = "WASMOpcodeCost" THEN costs[f] % Uint32Limit ELSE costs[f]]

checkForZeroUint64Fields(costs) == \A f \in DOMAIN costs : costs[f] # 0

\* Mutant: the values are checked before they are cut to 32 bits.
IsValidBeforeDecode(gasMap) ==
    \A section \in DOMAIN GasCost : checkForZeroUint64Fields(gasMap[section])

\* CreateGasConfig: an error, or the decoded schedule.
IsValid(gasMap) ==
    \A section \in DOMAIN GasCost :
        checkForZeroUint64Fields(Decode(section, gasMap[section]))

CreateGasConfig(gasMap) ==
    [section \in DOMAIN GasCost |-> Decode(section, gasMap[section])]

\* FillGasMap and its sections; BuiltInCost is the node's and is not decoded.
FillGasMap_BaseOperationCosts(value) == [f \in BaseOperationCost |-> value]

FillGasMap_BaseOpsAPICosts(value, asyncCallbackGasLock) ==
    [f \in BaseOpsAPICost |->
        IF f = "AsyncCallbackGasLock" THEN asyncCallbackGasLock ELSE value]

FillGasMap_EthereumAPICosts(value) == [f \in EthAPICost |-> value]

FillGasMap_BigIntAPICosts(value) == [f \in BigIntAPICost |-> value]

FillGasMap_CryptoAPICosts(value) == [f \in CryptoAPICost |-> value]

FillControlAndMemory(value) == [f \in ControlAndMemoryFields |-> value]
FillNumeric(value) == [f \in NumericFields |-> value]
FillBulkAndAtomic(value) == [f \in BulkAndAtomicFields |-> value]
FillVectorAccess(value) == [f \in VectorAccessFields |-> value]
FillVectorMath(value) ==
    [f \in VectorMathFields |-> IF f = LocalsUnmetered THEN 100 ELSE value]

FillGasMap_WASMOpcodeValues(value) ==
    FillControlAndMemory(value) @@ FillNumeric(value) @@ FillBulkAndAtomic(value)
        @@ FillVectorAccess(value) @@ FillVectorMath(value)

FillGasMap(value, asyncCallbackGasLock) ==
    [BaseOperationCost |-> FillGasMap_BaseOperationCosts(value),
     BaseOpsAPICost |-> FillGasMap_BaseOpsAPICosts(value, asyncCallbackGasLock),
     EthAPICost |-> FillGasMap_EthereumAPICosts(value),
     BigIntAPICost |-> FillGasMap_BigIntAPICosts(value),
     CryptoAPICost |-> FillGasMap_CryptoAPICosts(value),
     WASMOpcodeCost |-> FillGasMap_WASMOpcodeValues(value)]

-----------------------------------------------------------------------------
(* ToOpcodeCostsArray: entries that are not assigned stay 0 *)

ControlAndMemoryCosts(costs) == [i \in ControlAndMemoryOpcodes |-> costs[i]]
NumericCosts(costs) == [i \in NumericOpcodes |-> costs[i]]

BulkAndAtomicCosts(costs) == [i \in BulkAndAtomicOpcodes |-> costs[i]]
VectorAccessCosts(costs) == [i \in VectorAccessOpcodes |-> costs[i]]
VectorMathCosts(costs) == [i \in VectorMathOpcodes |-> costs[i]]

ToOpcodeCostsArray(costs) ==
    [i \in Opcodes |->
        IF i \in ControlAndMemoryOpcodes THEN ControlAndMemoryCosts(costs)[i]
        ELSE IF i \in NumericOpcodes THEN NumericCosts(costs)[i]
        ELSE IF i \in BulkAndAtomicOpcodes THEN BulkAndAtomicCosts(costs)[i]
        ELSE IF i \in VectorAccessOpcodes THEN VectorAccessCosts(costs)[i]
        ELSE IF i \in VectorMathOpcodes THEN VectorMathCosts(costs)[i]
        ELSE 0]
=============================================================================
