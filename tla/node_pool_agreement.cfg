CONSTANTS
  n1 = n1
  n2 = n2
  lan = lan
  cron = cron
  admin = admin
  Nodes <- MCNodes
  Public <- MCPublic
  Runs <- MCRuns
  ContribTtl = 2
  MaxPool = 1
  MaxKeys = 3
  MinSources = 2
  RunLimit = 1
  MaxNow = 4
  MaxPosts = 2
  MaxRuns = 2
SPECIFICATION Spec
SYMMETRY Symmetry
CHECK_DEADLOCK FALSE
INVARIANT CorroborationIsAgreement
