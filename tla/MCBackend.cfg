SPECIFICATION Spec
CONSTANTS
  None = None
  NaN = NaN
  Dependencies <- Registry
  Singleton <- MCSingleton
  MayThrow = {"PeerInfo"}
  MayReject = {"PGClient", "HeartbeatServer", "Chainsaw"}
  Script <- MCScript
  Nodes <- MCNodes
  Granule <- MCGranule
  Reach <- MCReach
  DropTime = 2
  MaxNow = 2
  MaxFailures = 1
  SectorSize = 1
  Unit = 2
  CapacityIncrement = 2
  CapacityBuckets = 2
  SizeClass = 3
  Coin = 2
  TokenIncrement = 2
  TokenBuckets = 2
  BlockReward = 1
  TimedBlocks = 3
  files <- MCFiles
  Localhost = 5
  Substitute = 7
  MaxCrashes = 1
  Nowhere = None
INVARIANTS BuiltOnceInOrder StorageNeverDips  PledgersCountedOnce TotalsAgree EveryRatioDefined DatabaseFits
PROPERTIES EventuallyMaterialized
CHECK_DEADLOCK FALSE
