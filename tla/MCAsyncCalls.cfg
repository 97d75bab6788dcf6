SPECIFICATION FairSpec
CONSTANTS
  Local = {l1}
  Remote = {r1, r2}
  Contexts = {x, y}
  Exports = {"callBack", "success"}
  LocalCaller = l1
  RemoteCaller = r1
  GasProvided = 6
  AsyncCallStep = 1
  AsyncCallbackGasLock = 1
  CompileGas = 1
  StoreGas = 1
  ProvidedGas = {0, 2}
  DataGas = {0, 2}
  IsDynamicGasLockingEnabled = TRUE
  MaxCalls = 2
INVARIANTS GasNeverCreated LockedGasPaysForCallback CallsInFlightAreExpected AnsweredOnceAndLast
PROPERTIES SinglePendingCallResolves
CHECK_DEADLOCK FALSE
