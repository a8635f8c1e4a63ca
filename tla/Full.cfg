SPECIFICATION MCSpec
CONSTANTS
  fileA = fileA
  fileB = fileB
  textX = textX
  textY = textY
  textShort = textShort
  Names = {fileA, fileB}
  Texts = {textX, textY, textShort}
  ShortTexts = {textShort}
  Contents <- OneOfEach
  NoFile = NoFile
  NameWords <- FourCharacters
  InodesPerBlock = 2
  CellsPerInode = 2
  PointersPerCell = 2
  INODE_TABLE_BLOCKS = 1
  INODE_COUNT = 5
  DIRECT_BLOCKS = 1
  TOTAL_BLOCKS = 8
  JOURNAL_SIZE_BLOCKS = 1
  WORD = 16
  MaxStale = 1
  MaxTroubles = 3
INVARIANTS TypeOK NothingToReplay FsckConverges
PROPERTIES FsckAccounts FormatRestores
SYMMETRY Swap
CHECK_DEADLOCK FALSE
