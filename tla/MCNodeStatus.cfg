SPECIFICATION ServerSpec
CONSTANTS
  p1 = p1
  p2 = p2
  p3 = p3
  m1 = m1
  m2 = m2
  Peer <- MCPeer
  Miner <- MCMiner
  Announces <- MCAnnounces
  NoMiner = NoMiner
  Absent = Absent
  MaxNodes = 2
  RefreshTime = 1
  MaxNow = 3
  MaxFailures = 2
  Packet <- MCPacket
  MaxPackets = 2
INVARIANTS
  OnlyHeardAreListed
  AddressMapSound
  OwnAddressFound
  Bounded
  LruExact
PROPERTIES
  EvictsTheSilent
CHECK_DEADLOCK FALSE
