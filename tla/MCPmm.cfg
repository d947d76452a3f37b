CONSTANTS
  KERNEL_END = 2
  RAM_END = 6
  PTE_PER_PAGE = 1
  Stores <- MCStores

SPECIFICATION Spec

INVARIANT TypeOK
INVARIANT FreeListIntact
INVARIANT PagesAccounted
PROPERTY ImplementsPageAllocator
