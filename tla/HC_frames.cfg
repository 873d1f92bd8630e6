\* Frame changes, the fast lane and two processors, with one hash to vote for.
SPECIFICATION Spec
CONSTANTS
  h1 = h1
  h2 = h2
  Processors = {p1, p2}
  Hashes = {h1}
  ZeroHash = zero
  Versions = {1}
  VersionOf <- MCOneVersion
  MaxSlot = 4
  Addresses = {a1, a2}
  Quorums = {1, 2}
  UnreachableQuorum = 99
  SlotsPerEpoch = 1
  FrameSizes = {1, 2}
  FastLanes = {0, 1}
  MaxSupport = 3
  FarFutureEpoch = 5
SYMMETRY MCSymmetry
INVARIANTS
  SupportIsVotes
  ProcessorAccepts
PROPERTY RefSlotAdvances
CHECK_DEADLOCK FALSE
