CONSTANTS
  KERNEL_END = 3
  RAM_END = 11
  PTE_PER_PAGE = 2
  PGSIZE = 2
  MaxHeld = 1
  UINT64 = 64
  Tables = {p1}
  VAs = {0, 2, 4, 6, 8, 10, 12, 14}
  Perms <- MCPerms
  Stores <- MCStores
  Images <- MCImages

SPECIFICATION PSpec

INVARIANT OneUse
INVARIANT RightsOfASegment
INVARIANT BytesForEveryPage

CHECK_DEADLOCK FALSE
