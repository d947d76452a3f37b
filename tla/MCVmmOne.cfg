CONSTANTS
  KERNEL_END = 3
  RAM_END = 9
  PTE_PER_PAGE = 2
  PGSIZE = 2
  MaxHeld = 1
  UINT64 = 64
  Tables = {t1}
  VAs = {0, 3, 17, 60}
  Perms <- OnePerm
  Stores <- OneStore

SPECIFICATION Spec

INVARIANT TypeOK
INVARIANT FreeListIntact
INVARIANT OneUse
INVARIANT LookupAgreesWithMMU
PROPERTY OnlyDestroyLosesPages
PROPERTY ImplementsAddressSpace

CHECK_DEADLOCK FALSE
