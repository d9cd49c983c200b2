SPECIFICATION Spec
CONSTANTS
  Files = {f1}
  Names = {a}
  NULL = NULL
  JUNK = JUNK
  BLOCK_SIZE = 2
  MAX_FILE_SIZE = 4
  INITIAL_CAPACITY = 1
  MAX_CAPACITY = 1
  MAX_BLOCKS = 4
  Flags <- CreateFlags
  Buffers <- MixedBuffers
  ReadSizes = {1, 4}
  NewSizes = {}
SYMMETRY Symmetry
INVARIANT AllReadBack
