SPECIFICATION FairSpec
CONSTANTS
  Block <- MCBlock
  Height <- MCHeight
  Parents <- MCParents
  Heads <- MCIngestHeads
  Chain <- MCIngestChain
  Messages <- MCMessages
  Rank <- MCRank
  FinalityDepth = 2
INVARIANTS
  CanonicalOnly
  NoSkippedBlock
  OneRowPerMessage
  EveryMessageCounted
  ServedTopExists
PROPERTIES
  EventuallyIngested
  NeverBackwards
  ImplementsLedger
