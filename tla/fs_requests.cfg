SPECIFICATION Spec
CONSTANTS
  Workers = {w1}
  Names = {x, y}
  WORD = 8
  NINODES_BLOCK = 2
  NUM_INODE_BLOCKS = 4
  NBIT_BLOCK = 2
  Uninitialised <- NotCleared
  Leftovers <- ClearedTable
  Fragile = {"format", "mounted"}
  MaxInodes = 3
  MaxCrashes = 1
SYMMETRY Symmetric
INVARIANTS TypeOK BlocksHaveOneOwner DirectoriesMatchInodes AnswersAgree
PROPERTY ImplementsTree
CHECK_DEADLOCK FALSE
