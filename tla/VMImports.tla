----------------------------- MODULE VMImports ------------------------------
(***************************************************************************)
(* The API functions that the host links to a contract (the Imports        *)
(* functions of vmhooks and cryptoapi, called by NewVMHost), and what the  *)
(* validator asks of a contract before it is deployed                      *)
(* (contexts/validator.go, contexts/reservedFunctions.go).                 *)
(***************************************************************************)

\* BaseOpsAPIImports, in the order of the code.
AccountImports ==
    {"getSCAddress", "getOwnerAddress", "getShardOfAddress", "isSmartContract",
     "getExternalBalance", "getBlockHash", "transferValue", "transferESDTExecute",
     "transferESDTNFTExecute", "transferESDT", "transferValueExecute", "asyncCall",
     "getArgumentLength", "getArgument", "getFunction", "getNumArguments"}

StorageImports ==
    {"storageStore", "storageLoadLength", "storageLoad", "storageLoadFromAddress",
     "getStorageLock", "setStorageLock", "isStorageLocked", "clearStorageLock"}

PaymentImports ==
    {"getCaller", "checkNoPayment", "getCallValue", "getESDTValue", "getESDTTokenName",
     "getESDTTokenType", "getESDTTokenNonce", "getCurrentESDTNFTNonce",
     "getCallValueTokenName", "writeLog", "writeEventLog", "finish", "signalError"}

BlockImports ==
    {"getBlockTimestamp", "getBlockNonce", "getBlockRound", "getBlockEpoch",
     "getBlockRandomSeed", "getStateRootHash", "getPrevBlockTimestamp", "getPrevBlockNonce",
     "getPrevBlockRound", "getPrevBlockEpoch", "getPrevBlockRandomSeed",
     "getOriginalTxHash", "getGasLeft"}

CallImports ==
    {"executeOnDestContext", "executeOnDestContextByCaller", "executeOnSameContext",
     "delegateExecution", "createContract", "deployFromSourceContract", "upgradeContract",
     "upgradeFromSourceContract", "executeReadOnly", "getNumReturnData",
     "getReturnDataSize", "getReturnData", "getESDTBalance", "getESDTTokenData",
     "getESDTNFTNameLength", "getESDTNFTAttributeLength", "getESDTNFTURILength"}

BaseOpsAPIImports ==
    AccountImports \cup StorageImports \cup PaymentImports \cup BlockImports \cup CallImports

BigIntConversionImports ==
    {"bigIntNew", "bigIntUnsignedByteLength", "bigIntSignedByteLength",
     "bigIntGetUnsignedBytes", "bigIntGetSignedBytes", "bigIntSetUnsignedBytes",
     "bigIntSetSignedBytes", "bigIntIsInt64", "bigIntGetInt64", "bigIntSetInt64"}

BigIntArithmeticImports ==
    {"bigIntAdd", "bigIntSub", "bigIntMul", "bigIntTDiv", "bigIntTMod", "bigIntEDiv",
     "bigIntEMod", "bigIntAbs", "bigIntNeg", "bigIntSign", "bigIntCmp", "bigIntNot",
     "bigIntAnd", "bigIntOr", "bigIntXor", "bigIntShr", "bigIntShl"}

BigIntTransferImports ==
    {"bigIntFinishUnsigned", "bigIntFinishSigned", "bigIntStorageStoreUnsigned",
     "bigIntStorageLoadUnsigned", "bigIntGetUnsignedArgument", "bigIntGetSignedArgument",
     "bigIntGetCallValue", "bigIntGetESDTCallValue", "bigIntGetESDTExternalBalance",
     "bigIntGetExternalBalance"}

SmallIntImports ==
    {"smallIntGetUnsignedArgument", "smallIntGetSignedArgument", "smallIntFinishUnsigned",
     "smallIntFinishSigned", "smallIntStorageStoreUnsigned", "smallIntStorageStoreSigned",
     "smallIntStorageLoadUnsigned", "smallIntStorageLoadSigned", "int64getArgument",
     "int64storageStore", "int64storageLoad", "int64finish"}

CryptoImports ==
    {"sha256", "keccak256", "ripemd160", "verifyBLS", "verifyEd25519", "verifySecp256k1"}

\* The imports that NewVMHost collects, and the names of the API.
APIFunctions ==
    BaseOpsAPIImports \cup BigIntConversionImports \cup BigIntArithmeticImports
        \cup BigIntTransferImports \cup SmallIntImports \cup CryptoImports

-----------------------------------------------------------------------------
(* Validation of new code *)

\* NewReservedFunctions: the active built-in functions, the API, and upgrades.
ReservedFunctions(activeBuiltins) ==
    activeBuiltins \cup APIFunctions \cup {"upgradeContract"}

\* verifyValidFunctionName; wellFormed are the names that are ASCII, not empty
\* and short enough.
ValidFunctionName(name, wellFormed, activeBuiltins) ==
    name \in wellFormed /\ name \notin ReservedFunctions(activeBuiltins)

\* verifyMemoryDeclaration and verifyFunctions: exports is a function from names
\* to arities, of arguments and of results.
ValidExports(contract, wellFormed, activeBuiltins) ==
    /\ contract.hasMemory
    /\ \A name \in DOMAIN contract.exports :
         /\ ValidFunctionName(name, wellFormed, activeBuiltins)
         /\ contract.exports[name] = <<0, 0>>

\* checkBackwardCompatibility: not to be imported before they are enabled.
ESDTFunctions ==
    {"transferESDTExecute", "transferESDTNFTExecute", "transferValueExecute",
     "getESDTBalance", "getESDTTokenData", "getESDTTokenType", "getESDTTokenNonce",
     "getCurrentESDTNFTNonce", "getESDTNFTNameLength", "getESDTNFTAttributeLength",
     "getESDTNFTURILength", "bigIntGetESDTExternalBalance"}

\* Wasmer links the imports of a contract, then VerifyContractCode.
VerifiedContract(contract, wellFormed, activeBuiltins, esdtEnabled) ==
    /\ contract.imports \subseteq APIFunctions
    /\ ValidExports(contract, wellFormed, activeBuiltins)
    /\ esdtEnabled \/ contract.imports \cap ESDTFunctions = {}
=============================================================================
