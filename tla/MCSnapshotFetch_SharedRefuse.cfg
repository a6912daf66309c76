CONSTANTS
  Body <- MCBody
  Size <- MCSize
  AssetName <- MCAssetName
  ManifestName = "manifest.json"
  Tag <- MCTag
  BadTag = {}
  Manifest <- MCManifest
  ManifestCap = 2
  MaxAssetBytes = 2
  Absent = Absent
  NotAFile = NotAFile
  NoBody = NoBody
  Fetcher = {f1, f2}
  Job <- RefuseJobs
  NoPin = NoPin
  NoJob = NoJob
  ChunkBytes = 2
  MaxCalls = 1
  InitialDisk <- OnlyEmptyDisk
  InitialDir <- ExistingDirectory
SPECIFICATION FairSpec
CHECK_DEADLOCK FALSE
PROPERTY RefuseNeverOverwrites
