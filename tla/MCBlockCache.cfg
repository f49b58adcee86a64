SPECIFICATION Spec
CONSTANTS
  MaxHeight = 3
  NullRounds = {2}
  Nodes = {n1}
  Requests = {r1, r2}
SYMMETRY Symmetric
INVARIANTS
  CacheTellsTheTruth
PROPERTIES
  AnswersAreComplete
