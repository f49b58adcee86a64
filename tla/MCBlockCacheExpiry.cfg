SPECIFICATION FairSpec
CONSTANTS
  MaxHeight = 2
  NullRounds = {}
  Nodes = {n1}
  Requests = {r1}
PROPERTIES
  EntriesExpire
