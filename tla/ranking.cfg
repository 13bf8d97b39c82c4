SPECIFICATION FairSpec
CONSTANTS
  a = a
  b = b
  k1 = k1
  k2 = k2
  Hashes = {a, b}
  Calls = {k1, k2}
  Asked <- MCAsked
  Trackers <- MCTrackers
  MaxCount = 1
  MaxPeers = 1
  SeederWeight = 1
  PeerWeight = 1
  MaxBoost = 1
  Refresh = Refresh
  None = None
INVARIANTS BoostNeverCompounds
PROPERTIES ClosedIsSilent DiscoverySettles
CHECK_DEADLOCK FALSE
