SPECIFICATION FairSpec
CONSTANTS
  NoVersion = NoVersion
  Versions = {v1, v2}
  NumBlocks = 2
  BlockErrorThreshold = 2
  ServerLookups = {"static", "discover"}
  DeleteExisting = TRUE
  MILLISECOND_TICKS_PER_SECOND = 1024
  Word = 1073741824
  Times = {0, 3600, 1073741823}
  MaxTransfers = 1
INVARIANTS
  TypeOK
  NeverStalls
  HandlersReady
  SuccessMeansWhole
  UpgradeOnTime
PROPERTIES
  InstallsWholeImage
  ImplementsUpdate
  DownloadProgresses
  DownloadEnds
