SPECIFICATION Spec
CONSTANTS
  f1 = f1
  f2 = f2
  f3 = f3
  Name <- Names
  NoName = NoName
  Zeroed = Zeroed
  s_nblocks = 8
  BLKSIZE = 2
  BLKFILES = 2
  BLKBITSIZE = 100
  NDIRECT = 1
  NINDIRECT = 2
  Buf <- Bytes
  Count <- Counts
  Size <- Sizes
  Offset <- Offsets
  MaxDir = 1
  MaxRequests = 6
SYMMETRY Symm
INVARIANTS
  BlocksAccounted
  CrashKeepsFilesApart
  FlushedIsDurable
PROPERTIES
  ImplementsFiles
CHECK_DEADLOCK FALSE
