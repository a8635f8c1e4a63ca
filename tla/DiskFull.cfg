SPECIFICATION MCSpec
CONSTANTS
  fileA = fileA
  fileB = fileB
  textX = textX
  textY = textY
  textShort = textShort
  Names = {fileA, fileB, fileC, fileD}
  Texts = {textX, textY, textShort}
  ShortTexts = {textShort}
  Contents <- OneOfEach
  NoFile = NoFile
  NameWords <- FourCharacters
  InodesPerBlock = 1
  CellsPerInode = 2
  PointersPerCell = 3
  INODE_TABLE_BLOCKS = 4
  INODE_COUNT = 5
  DIRECT_BLOCKS = 2
  TOTAL_BLOCKS = 9
  JOURNAL_SIZE_BLOCKS = 1
  WORD = 16
  MaxStale = 1
  MaxTroubles = 1
PROPERTY AllOrNothing
CHECK_DEADLOCK FALSE
