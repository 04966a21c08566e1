SPECIFICATION Spec
CONSTANTS
  Files = {1, 2}
  BLOCK_SIZE = 2
  NDBLOCK_PTRS = 2
  PADDING = 2
  WORD = 10
  Sizes = {1, 3}
  AnyWrite = FALSE
  Leftovers = {0, 2}
  MaxBlocks = 3
  MaxCrashes = 1
INVARIANTS TypeOK BlocksOwned ReadsBack
CHECK_DEADLOCK FALSE
