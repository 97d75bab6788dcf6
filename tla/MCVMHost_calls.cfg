SPECIFICATION Spec
CONSTANTS
  MaxUint = 63
  alice = alice  bob = bob  new1 = new1  new2 = new2  fresh = fresh  remote = remote
  small = small  large = large  broken = broken
  NoCode = NoCode  NoUpdate = NoUpdate  NoAccount = NoAccount  NoAddress = NoAddress
  Address <- MCAddress
  Code <- MCCode
  Value = {0, 1, 40}
  ChainCode <- MCChainCode
  ChainBalance <- MCChainBalance
  OwnerOf <- MCOwnerOf
  NewAddressOf <- MCNewAddressOf
  PrepareCost <- MCPrepareCost
  CompileCost <- MCCompileCost
  StorePerByte = 1  PersistPerByte = 1  ReleasePerByte = 1  DataCopyPerByte = 1
  GetCodeCost = 1  CreateCost = 1  HookCost = 1  BuiltinCost = 1
  LocalAddress = {alice, bob, new1, new2, fresh}
  SmartContract = {alice, bob, new1, new2, fresh, remote}
  Payable = {alice, bob, remote}
  Upgradeable = {bob}
  InvalidCode = {broken}
  Imports = {"executeOnDestContext", "transferValueExecute", "transferValue", "transferESDTExecute", "storageStore", "signalError"}
  Functions = {"call"}
  Entrypoints = {alice, bob}
  TxSender = remote
  Recipients = {alice, bob, remote}
  MaxWasmerInstances = 2
  MaxNonce = 1
  RunGas = {8}
  GasLimits = {4}
  InstructionGas = {2}
  Deployments <- MCNoDeployments
  CallValues = {1}
INVARIANTS TypeOK GasNeverCreated GasBooksBalance ValueConserved
PROPERTIES CallerResumesInItsContext ImplementsTransactions
