SPECIFICATION FairSpec
CONSTANTS
  h1 = h1  h2 = h2  h3 = h3  h4 = h4
  Hash = {h1, h2, h3, h4}
  Lists <- MCLists
  MaxRacers = 2
  StallStrikes = 3
  GraceChecks = 1
  MaxPlays = 3
  NoTorrent = NoTorrent
INVARIANTS WatchdogGuardsTorrent
PROPERTIES FailoverMovesOn FailoverNeedsStrikes ImplementsPlayer EveryPlaySettles AbortSticks
CHECK_DEADLOCK FALSE
