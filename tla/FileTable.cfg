SPECIFICATION Spec
CONSTANTS
  f1 = f1
  f2 = f2
  b1 = b1
  b2 = b2
  MAX_OPEN_FILES = 5
  File <- MCFile
  Byte = {b1, b2}
  Chunk <- MCChunk
  BootStat <- FailList
  Faults = {"f_open", "f_read", "f_write", "f_close"}
  MaxLen = 2
  None = None
INVARIANTS
  FilAsAssumed
PROPERTIES
  ImplementsStore
  SafeUntilClosed
CHECK_DEADLOCK FALSE
