SPECIFICATION Spec
CONSTANTS
  Threads = {t1, t2}
  Nobody = Nobody
  Blank = Blank
  MEMORY_PAGES = 4
  SWAP_PAGES = 2
  Library = Library
  NULL = NULL
  Unset = Unset
  PAGE_SIZE = 4
  META = 1
  OS_SIZE = 8
  Sizes = {2, 6}
  Interruptible = TRUE
  MaxBlocks = 4
SYMMETRY Symmetric
INVARIANT FreePageIsEmpty
CHECK_DEADLOCK FALSE
