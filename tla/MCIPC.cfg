SPECIFICATION FairSpec
CONSTANTS
  Caller = {n1, n2}
  Nobody = Nobody
  Operations = {"ContractCall", "GasScheduleChange"}
  Hooks <- HooksOfEachSort
  MaxLoopTime = 2
  MaxOperations = 3
  MaxHookCalls = 2
  MaxFaults = 1
INVARIANTS OneMessageUnderWay AnswersAreRight DialoguesStartFresh CompiledCodeIsCurrent
PROPERTIES OperationsEndOrLoseTheirDeadline
CHECK_DEADLOCK FALSE
