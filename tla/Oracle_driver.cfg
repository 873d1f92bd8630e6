\* A committee set up and driven by the helpers, over two reportable frames, while validators exit.
SPECIFICATION DriverSpec
CONSTANTS
  ao = ao
  o1 = o1
  o2 = o2
  o3 = o3
  ZeroHash = zero
  NoChunk = zero
  Processors = {ao}
  AO = ao
  Hashes <- MCReports
  Versions = {1}
  VersionOf <- MCVersionOf
  MaxSlot = 3
  Addresses = {o1, o2, o3}
  Quorums = {2}
  UnreachableQuorum = 99
  SlotsPerEpoch = 1
  FrameSizes = {1}
  FastLanes = {0}
  MaxSupport = 3
  FarFutureEpoch = 9
  Deposited <- MCDeposited
  KeyBase = 4
  MaxOperators = 1
  MaxItems = 2
  ExitedPerDayLimit = 4
  SlotsPerDay = 2
  Chunks = {}
  OcMember <- MCOcMember
  Committees <- MCCommittees
  OffsetSlots = 1
  ChunkSizes = {1}
  Exits <- MCExits
  MaxVariants = 2
INVARIANTS
  ExtraOK
  RewardsAwaitCounts
  CountsFollowChain
PROPERTIES
  ThrowsExplained
  Delivered
CHECK_DEADLOCK FALSE
