SPECIFICATION FairSpec
CONSTANTS
  Autopilots <- MCAutopilots
  Replay = FALSE
  Modes = 2
  MaxRetry = 2
  Unheard = FALSE
  RefreshesAt <- MCNever
  MaxRefreshes = 0
  ValuesAt <- MCNever
  JobsAt <- MCNever
  GuidedAt <- MCParameters
PROPERTIES ConnectCompletes
