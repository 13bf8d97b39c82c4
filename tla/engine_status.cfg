SPECIFICATION EngineSpec
CONSTANTS
  h1 = h1  h2 = h2  h3 = h3  r1 = r1  r2 = r2  r3 = r3  r4 = r4
  Hash = {h1, h2, h3}
  Lists <- MCLists
  MaxRacers = 2
  StallStrikes = 2
  GraceChecks = 1
  MaxPlays = 3
  NoTorrent = NoTorrent
  Request = {r1, r2}
  Nameless = {}
  RankedLists <- MCRankedLists
  Content <- MCContent
  Ranges <- MCRanges
  Window = 2
  HeadTail = 1
  NoRange = NoRange
  NoLast = NoLast
  NoResponse = NoResponse
INVARIANTS PlayingMeansServable
CHECK_DEADLOCK FALSE
