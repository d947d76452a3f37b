CONSTANTS
  KERNEL_END = 3
  RAM_END = 11
  PTE_PER_PAGE = 2
  PGSIZE = 2
  MaxHeld = 1
  UINT64 = 64
  Tables = {t1, t2}
  VAs = {3}
  Perms <- OnePerm
  Stores <- ZeroStore

SYMMETRY TableSymmetry

SPECIFICATION Spec

INVARIANT OneUse
PROPERTY ImplementsAddressSpace

CHECK_DEADLOCK FALSE
