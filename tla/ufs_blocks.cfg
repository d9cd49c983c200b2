SPECIFICATION Spec
CONSTANTS
  Files = {f1}
  Names = {a}
  NULL = NULL
  JUNK = JUNK
  BLOCK_SIZE = 2
  MAX_FILE_SIZE = 4
  INITIAL_CAPACITY = 2
  MAX_CAPACITY = 2
  MAX_BLOCKS = 3
  Flags <- WriteOnlyFlags
  Buffers <- MixedBuffers
  ReadSizes = {1, 3}
  NewSizes = {0, 1, 4, 5}
SYMMETRY Symmetry
INVARIANTS AppendedReadBack BlocksCover SizeBound
