SPECIFICATION FairSpec
CONSTANTS
  Browser = {b1, b2}
  Stat <- MCStat
  Order <- MCOrder
  MaxVersion = 1
  None = none
PROPERTIES
  NeverOlder
  EveryPollEnds
  EventuallyCurrent
\* all pages may have stopped polling
CHECK_DEADLOCK FALSE
