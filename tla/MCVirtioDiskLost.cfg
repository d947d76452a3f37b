CONSTANTS
  Procs = {p1, p2}
  None = None
  Handler = Handler
  NUM = 8
  IdxMod = 16

SPECIFICATION FairSpec

PROPERTY FinishedIsSaid

CHECK_DEADLOCK FALSE
