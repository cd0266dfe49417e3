SPECIFICATION TagSpec
CONSTANTS
  NoVersion = NoVersion
  Versions = {v1}
  NumBlocks = 2
  BlockErrorThreshold = 2
  ServerLookups = {"static", "dns", "discover"}
  DeleteExisting = TRUE
  MILLISECOND_TICKS_PER_SECOND = 1024
  Word = 1073741824
  Times = {0, 3600, 1073741823}
  MaxTransfers = 1
  Routers = {r1}
  NoRouter = NoRouter
INVARIANTS
  TagTypeOK
  SuccessMeansWhole
  StallsOnlyInDiscovery
  OnlyServerMissing
PROPERTIES
  InstallsWholeImage
  ImplementsUpdate
  DownloadProgresses
