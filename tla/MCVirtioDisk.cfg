CONSTANTS
  Procs = {p1, p2, p3}
  None = None
  Handler = Handler
  NUM = 8
  IdxMod = 16

SPECIFICATION FairSpec

INVARIANT TypeOK
INVARIANT DescriptorsAccounted
INVARIANT OnePlaceEach
INVARIANT ChainsUndisturbed
INVARIANT NeverFaults
PROPERTY SleepersReturn
PROPERTY ImplementsDiskService

CHECK_DEADLOCK FALSE
