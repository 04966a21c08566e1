SPECIFICATION Spec
CONSTANTS
  Threads = {t1, t2}
  Nobody = Nobody
  Blank = Blank
  MEMORY_PAGES = 4
  SWAP_PAGES = 2
  NULL = NULL
  PAGE_SIZE = 4
  META = 1
  OS_SIZE = 12
  Sizes = {2, 5, 10}
  MaxBlocks = 4
SYMMETRY Symmetric
INVARIANTS TypeOK PagesSuffice ChainLinked Isolated
CHECK_DEADLOCK FALSE
