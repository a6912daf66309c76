CONSTANTS
  Body <- MCBody
  Size <- MCSize
  AssetName <- MCAssetName
  ManifestName = "manifest.json"
  Tag <- MCTag
  BadTag <- MCBadTag
  Manifest <- MCManifest
  ManifestCap = 1
  MaxAssetBytes = 2
  Absent = Absent
  NotAFile = NotAFile
  NoBody = NoBody
  Fetcher = {f1}
  Job <- Job1
  NoPin = NoPin
  NoJob = NoJob
  ChunkBytes = 2
  MaxCalls = 2
  InitialDisk <- StartingDisks
  InitialDir <- AnyDirectory
  Verifier = {v1}
  MaxChecks = 1
  Reader = {r1}
  History = "csv"
  Reading <- MCReading
SPECIFICATION FairSystemSpec
CHECK_DEADLOCK FALSE
INVARIANT FrameBytesWereChecked
