CONSTANTS
  Requests = {r1, r2, r3}
  None = None
  VIRTIO_QUEUE_SIZE = 8

SPECIFICATION FairSpec

INVARIANT HeaderValidUntilServed

CHECK_DEADLOCK FALSE
