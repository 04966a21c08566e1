SPECIFICATION Spec
CONSTANTS
  Workers = {w1, w2}
  Names = {x, y}
  WORD = 8
  NINODES_BLOCK = 2
  NUM_INODE_BLOCKS = 4
  NBIT_BLOCK = 2
  Uninitialised <- Cleared
  Leftovers <- ClearedTable
  Fragile = {}
  MaxInodes = 4
  MaxCrashes = 0
SYMMETRY Symmetric
INVARIANTS FoundInodeIsFree
CHECK_DEADLOCK FALSE
