SPECIFICATION Spec
CONSTANTS
  Radix = 4
  TfScale = 1
  PageSize = 5
  ContinuationHeader = 2
  LeafDirectory = 2
  LeafBytes = 6
  LeafEntrySize = 2
  HeadTermKeyMax = 4
  TermLength <- MCTermLength
  U16 = 65536
  Docs <- MCDocs
  Tfs <- MCFlaggedTfs
  MaxPostings <- MCMaxPostings
  MergedLeafLimit = 1
  MergedIndexLimit = 3
  ScratchBytes = 11
  Character = {0, 1, 4, 5, 7, 8, 9}
  Slash = 0
  Backslash = 1
  IsUtf8 <- MCIsUtf8
  PathOf <- MCPathOf
  HashOrder <- MCHashOrder
  FilenameMax = 2
  MaxPrefixes = 3
  SidecarHeader = 1
  SidecarEntry = 1
  SidecarBytes = 5
  MaxFailures = 0
INVARIANT MergedComplete
