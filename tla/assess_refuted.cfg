SPECIFICATION Spec
CONSTANTS
  a = a  b = b  d = d  k1 = k1  k2 = k2
  Addr = {a, b, d}
  MaxAddrs = 2
  DeadAfter = 1
  DeadTtl = 2
  Rtts = {1}
  NoRtt = 2
  Call = {k1, k2}
  Candidate = {1, 2, 3}
  CallOf <- MCCallOf
  Rankable <- MCRankable
  Concurrency = 2
  MaxPeers = 3
  RefutationMinPeers = 3
  MaxNow = 1
  NoPeer = NoPeer
  NoResult = NoResult
INVARIANTS RefutedAskedEnough
CHECK_DEADLOCK FALSE
