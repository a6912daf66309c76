CONSTANTS
  Body <- PairBody
  Size <- PairSize
  AssetName <- MCAssetName
  ManifestName = "manifest.json"
  Tag <- MCTag
  BadTag = {}
  Manifest <- PairManifest
  ManifestCap = 2
  MaxAssetBytes = 2
  Absent = Absent
  NotAFile = NotAFile
  NoBody = NoBody
  Fetcher = {f1, f2}
  Job <- PlainJobs
  NoPin = NoPin
  NoJob = NoJob
  ChunkBytes = 1
  MaxCalls = 1
  InitialDisk <- OnlyEmptyDisk
  InitialDir <- ExistingDirectory
SPECIFICATION Spec
SYMMETRY Symmetric
CHECK_DEADLOCK FALSE
INVARIANT TypeOK
INVARIANT OnlyVerifiedBytesLand
INVARIANT ResolvedStaysVerified
PROPERTY RefuseSparesWhatItFound
PROPERTY ImplementsStore
