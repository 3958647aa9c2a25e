SPECIFICATION Spec
INVARIANT AnswersRight
INVARIANT HeapExact
PROPERTY CallsEnd
CONSTANTS
  Images <- MCImages
  CyclicImages = {"cyclic"}
  SECTOR = 8
  MAX_SECTOR = 64
  FAT_ENTRY = 2
  FAT28 = 32
  U8 = 256
  U32 = 16
  U64 = 64
  ATA_MAX = 2
  LBA28 = 64
  LFN_MAX_SLOTS = 2
  NAME_MAX = 2
  FAT32_NAME_MAX = 3
  DIRENT_SIZE = 5
  Utf8 <- MCUtf8
  Lower <- MCLower
  Code <- MCCode
  MAX_BLOCKS = 16
  NULL = NULL
  Paths <- MCPaths
  MountPaths <- MCMountPaths
  DriverPaths <- MCDriverPaths
  Handles = {h1}
  Lens = {1, 9}
  Indexes = {0, 2}
  MAX_ROOTS = 2
  DIR_CACHE_CAP = 2
