CONSTANTS
  IRQs <- MCIRQs
  Harts = {0, 1}
  Priorities = {0, 7}
  Enabled <- MCEnabled
  Readable <- MCReadable
  Offers <- MCOffers
  NumMaxes = {4, 8}
  PGSIZE = 4096
  DescPage = 10

SPECIFICATION KernelSpec

INVARIANT TrapsAreVectored
INVARIANT OnlyKnownSources
INVARIANT SourcesArmed
INVARIANT LiveMeansConfigured
INVARIANT LiveDiskIsHeard
PROPERTY SetUpPrecedesLive
PROPERTY VictoryUnlessTrapped

CHECK_DEADLOCK FALSE
