\* Three members change votes, membership, quorum and version over two frames.
SPECIFICATION Spec
CONSTANTS
  h1 = h1
  h2 = h2
  Processors = {p1}
  Hashes = {h1, h2}
  ZeroHash = zero
  Versions = {1, 2}
  VersionOf <- MCTwoVersions
  MaxSlot = 5
  Addresses = {a1, a2, a3}
  Quorums = {1, 2, 3, 99}
  UnreachableQuorum = 99
  SlotsPerEpoch = 2
  FrameSizes = {1}
  FastLanes = {0}
  MaxSupport = 3
  FarFutureEpoch = 3
SYMMETRY MCSymmetry
INVARIANTS
  WellFormed
  FastLaneComplete
  ConsensusIsQuorum
CHECK_DEADLOCK FALSE
