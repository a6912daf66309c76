CONSTANTS
  Body <- MCBody
  Size <- MCSize
  AssetName <- MCAssetName
  ManifestName = "manifest.json"
  Tag <- MCTag
  BadTag = {}
  Manifest <- MCManifest
  ManifestCap = 2
  MaxAssetBytes = 2
  Absent = Absent
  NotAFile = NotAFile
  NoBody = NoBody
  Fetcher = {f1}
  Job <- PinnedJobs
  NoPin = NoPin
  NoJob = NoJob
  ChunkBytes = 2
  MaxCalls = 2
  InitialDisk <- AnyDisk
  InitialDir <- AnyDirectory
SPECIFICATION FairSpec
CHECK_DEADLOCK FALSE
INVARIANT CallsAreCoherent
PROPERTY NoTempAfterReturn
INVARIANT ResultIsWhatWasAsked
PROPERTY RefuseNeverOverwrites
PROPERTY EveryCallEnds
