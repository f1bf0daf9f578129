\* The loader with the device and the signal beside it.
SPECIFICATION FairSpec
CONSTANTS
  GB = 2
  PageBytes = 2
  BufIds = {1, 2, 3, 4}
  NULL = 0
  ByteMod = 2
  Starts <- MCStarts
  Typed <- MCTyped
  Files <- MCFiles
  Writable = {"g"}
  InitialSize = 1
  RecoverSize = 1
  DefaultTimeout = 2
  MinBits = 1
  MaxBits = 3
  UIntMod = 4
  UnsignedMod = 256
  MaxTyped = 1
  MaxInts = 1
  MaxStores = 1
  MaxCvs = 1
  MaxFails = 2
INVARIANTS
  LoaderTypeOK
  SegmentsCover
  NeverMapsFreed
  NothingLeaks
  TouchesMemory
  StoresArrive
  ReportHonest
  RestoreLands
PROPERTIES
  ImplementsFlatMemory
  DirectiveEnds
CHECK_DEADLOCK FALSE
