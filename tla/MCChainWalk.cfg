SPECIFICATION PollSpec
CONSTANTS
  Block <- MCBlock
  Height <- MCHeight
  Parents <- MCParents
  Heads <- MCHeads
  Chain <- MCChain
  ToBlocks <- MCToBlocks
  MinerName <- MCMinerName
  Messages <- MCMessages
  Reply <- MCReply
  NoPower = NoPower
INVARIANTS
  ReturnsConfirmed
  TopFirstNoRepeats
  FetchedOnce
  NumbersAreTheNodes
PROPERTIES
  PollEnds
CHECK_DEADLOCK FALSE
