CONSTANTS
  MAX_CFG_NODES = 11
  MAX_MEM_DESCS = 12
  DIRBLKFSBS = 2
  MANY = 64
  CLOSE = 4
  MAXNAMELEN = 256
  Directories <- MCDirectories
  Systems <- MCSystems
SPECIFICATION Spec
INVARIANTS TreeSound MapSound LookupRight BufferRight
