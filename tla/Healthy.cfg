SPECIFICATION MCHealthySpec
CONSTANTS
  fileA = fileA
  fileB = fileB
  textX = textX
  textY = textY
  textShort = textShort
  Names = {fileA, fileB}
  Texts = {textX, textY, textShort}
  ShortTexts = {textShort}
  Contents <- TwoDirect
  NoFile = NoFile
  NameWords <- FourCharacters
  InodesPerBlock = 2
  CellsPerInode = 2
  PointersPerCell = 4
  INODE_TABLE_BLOCKS = 2
  INODE_COUNT = 8
  DIRECT_BLOCKS = 2
  TOTAL_BLOCKS = 13
  JOURNAL_SIZE_BLOCKS = 1
  WORD = 16
  MaxStale = 1
  MaxTroubles = 3
INVARIANTS SingleOwner OwnedAllocated NamesResolve CountersExact MemoryOnDisk
PROPERTY FilesAreAStore
CHECK_DEADLOCK FALSE
