CONSTANTS
  Readable <- NotWriteOnly
  Offers <- MCOffers
  NumMaxes = {0, 4, 8, 1024}
  PGSIZE = 4096
  DescPage = 10

SPECIFICATION Spec

PROPERTY VictoryOnSuitable

CHECK_DEADLOCK FALSE
