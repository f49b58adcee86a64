SPECIFICATION FairSpec
CONSTANTS
  Client = {c1, c2}
  Reader = {r1, r2}
  Writer = {w1, w2}
  Program <- MCProgram
  RowCount = 2
  None = none
INVARIANTS
  AllOrNothing
  RefusedIsAbsent
  LostOnlyByARead
PROPERTIES
  EveryRequestAnswered
