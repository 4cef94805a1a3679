SPECIFICATION FairSpec
CONSTANTS
  Size = 5
  DataLen = 2
  MaxRetry = 1
  SeqMod = 256
  FirstSeq = 248
  MaxDownloads = 2
  MaxFaults = 1
  MaxCancels = 1
  Capacity = 1
INVARIANTS TypeOK BytesAccounted EndsRightly
CHECK_DEADLOCK FALSE
PROPERTIES DownloadsEnd
