SPECIFICATION Spec
CONSTANTS
  Files = {f1, f2}
  Names = {a, b}
  NULL = NULL
  JUNK = JUNK
  BLOCK_SIZE = 2
  MAX_FILE_SIZE = 1
  INITIAL_CAPACITY = 1
  MAX_CAPACITY = 4
  MAX_BLOCKS = 4
  Flags <- ReadOnlyFlags
  Buffers <- OneByte
  ReadSizes = {}
  NewSizes = {0}
SYMMETRY Symmetry
INVARIANTS TypeOK RefsExact UsedExact NoFileLost
PROPERTY ImplementsButForResize
