SPECIFICATION MCSpec
CONSTANTS
  l1 = l1
  l2 = l2
  kept = kept
  foreign = foreign
  Carriers <- MCCarriers
  Kinds <- MCKinds
  MaxTroubles = 2
  Keys <- MCKeys
  Stored <- MCStored
  MaxChanges = 3
  MaxLosses = 2
  Modulus = 12
  First <- MCFirst
  Depth = 2
  MaxEvents = 3
  MaxDrops = 1
  MaxRestarts = 1
  MaxSetBacks = 1
  Components <- MCComponents
  Default = 1
  Count <- MCCount
  Silences <- MCSilences
  MaxListRetry = 1
  MaxGapRetry = 1
  MaxReread = 1
  MaxBatch = 0
  MaxTurns = 1
  Apm = TRUE
  Mission = TRUE
  Plans <- MCLongPlans
  MaxCount = 3
  MaxRetry = 1
  Lossy = TRUE
  Duplicates = TRUE
  Prompt = FALSE
  Capacity = 1
INVARIANTS MCTypeOK TypeOK PrimaryIsLive InOrderAndWhole LoadIsWhole
  ReadAccountsForEveryItem InTimePlansAgree
PROPERTIES CloudGivesWay UnderstandAgain CatchesUp KeepsPromise TransfersEnd
CHECK_DEADLOCK FALSE
