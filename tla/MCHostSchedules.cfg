SPECIFICATION FairSpec
CONSTANTS
  Uint32Limit = 256
  Host = {h1, h2}
  Caller = {n1, n2, n3}
  GasMaps <- MCGasMaps
  FirstSchedule = "first"
  Nobody = Nobody
  NoSchedule = NoSchedule
  MaxChanges = 2
INVARIANTS OpcodeCostsFollowSchedules OpcodesAreMetered
PROPERTIES ScheduleFixedDuringExecution LockIsReleased
CHECK_DEADLOCK FALSE
