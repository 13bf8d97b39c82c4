SPECIFICATION Spec
CONSTANTS
  e1 = e1
  r1 = r1
  r2 = r2
  a = a
  b = b
  c = c
  None = None
  Engines = {e1}
  Clients = {e1}
  Callers = {r1, r2}
  Nodes = {a, b, c}
  Legacy = {a, b, c}
  AnsweredWithin = 1
  MaxNodes = 2
  ReadTimeout = 1
  BreakerTime = 1
  MaxFlying = 1
  MaxNow = 2
SYMMETRY Symmetry
INVARIANTS TypeOK DeadPlaneCost
PROPERTIES OnlyEvidenceIsRenewed OnlyFresherDisplaces
CHECK_DEADLOCK FALSE
