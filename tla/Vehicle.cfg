SPECIFICATION MCSpec
CONSTANTS
  Autopilots <- MCAutopilots
  Replay = FALSE
  Modes = 2
  MaxRetry = 2
  Unheard = FALSE
  RefreshesAt <- MCLate
  MaxRefreshes = 1
  ValuesAt <- MCLate
  JobsAt <- MCLate
  GuidedAt <- MCAfterMission
  q1 = q1
  q2 = q2
  Names <- MCNames
  Values <- MCValues
  MaxInFlight = 1
  MaxResends = 1
  Fresh = TRUE
  Prompt = TRUE
  Apart = TRUE
  MaxAsks = 3
  Capacity = 2
INVARIANTS
  MCTypeOK StepIsUnderWay NothingOutlivesItsStep FilesTakeTurns
  HeldWritesWaitForRoom ShownIsTheVehicles
PROPERTIES ConnectCompletes EndsKeptOrFailed EveryWriteEnds
