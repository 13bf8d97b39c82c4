SPECIFICATION SharedSpec
CONSTANTS
  Counts = {0, 1}
  Coalesce = 2
  HealthTtl = 2
  PutLimit = 1
  MaxNow = 6
  EdgeTtl = 1
  ReadLimit = 0
  FreshAge = 0
  RecentAge = 1
  MaxAge = 2
  None = None
  Unloaded = Unloaded
INVARIANTS StorageLeads NoPinnedMiss ServedInTime
PROPERTIES OneWritePerInterval PositiveSurvives
CHECK_DEADLOCK FALSE
