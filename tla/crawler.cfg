SPECIFICATION FairSpec
CONSTANTS
  Nodes = {n1}
  Hashes = {h1}
  Samplers = {s1}
  Finders = {f1}
  Lookers = {p1, p2}
  Namers = {m1}
  NodeQueueMax = 2
  LeadQueueMax = 1
  MetaQueueMax = 1
  MaxPaths = 2
  MaxListed = 1
  Metas <- MCMetas
  Keywords <- MCKeywords
  MinNameLength = 3
  MinTotalSize = 1
  MinShortNameSize = 5
  None = None
INVARIANTS TypeOK GatedNames
PROPERTIES NoHitIsLost WrittenOffNodesLeave StopWindsDown
CHECK_DEADLOCK FALSE
