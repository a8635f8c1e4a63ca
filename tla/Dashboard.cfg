SPECIFICATION FairSpec
CONSTANTS
  f1 = f1
  f2 = f2
  f3 = f3
  FileNames = {f1, f2, f3}
  Sizes = {1, 4}
  DATA_BLOCK_COUNT = 5
  INODE_SLOTS = 2
  MaxFscks = 2
INVARIANTS TypeOK Accounts RepairingIsPending
PROPERTIES CleanIsEarned RedStays RepairingEnds FsckRepairs
