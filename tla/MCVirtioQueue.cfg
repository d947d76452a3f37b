CONSTANTS
  Requests = {r1, r2, r3}
  None = None
  VIRTIO_QUEUE_SIZE = 8

SPECIFICATION FairSpec

INVARIANT TypeOK
INVARIANT ChainsAreAllocated
INVARIANT NoDescriptorLost
INVARIANT TakenAsSubmitted
PROPERTY TakenWhereOrdered

CHECK_DEADLOCK FALSE
