SPECIFICATION Spec
CONSTANTS
  MaxUint = 63
  alice = alice  bob = bob  new1 = new1  new2 = new2  fresh = fresh  remote = remote
  small = small  large = large  broken = broken
  NoCode = NoCode  NoUpdate = NoUpdate  NoAccount = NoAccount  NoAddress = NoAddress
  Address <- MCAddress
  Code <- MCCode
  Value = {0, 1}
  ChainCode <- MCChainCode
  ChainBalance <- MCChainBalance
  OwnerOf <- MCOwnerOf
  NewAddressOf <- MCNewAddressOf
  PrepareCost <- MCPrepareCost
  CompileCost <- MCCompileCost
  StorePerByte = 1  PersistPerByte = 1  ReleasePerByte = 1  DataCopyPerByte = 1
  GetCodeCost = 1  CreateCost = 1  HookCost = 1  BuiltinCost = 1
  LocalAddress = {alice, bob, new1, new2, fresh}
  SmartContract = {alice, bob, new1, new2, fresh}
  Payable = {alice, bob}
  Upgradeable = {bob}
  InvalidCode = {broken}
  Imports = {"executeOnDestContext", "transferValueExecute", "storageStore"}
  Functions = {"call", "builtin", "upgradeContract"}
  Entrypoints = {alice, bob}
  TxSender = remote
  Recipients = {alice, bob}
  MaxWasmerInstances = 3
  MaxNonce = 1
  RunGas = {9}
  GasLimits = {4}
  InstructionGas = {}
  Deployments <- MCNoDeployments
  CallValues = {0}
INVARIANTS ChainMatchesOutput GasBooksBalance
