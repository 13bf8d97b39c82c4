SPECIFICATION FairSpec
CONSTANTS
  c1 = c1  c2 = c2  c3 = c3
  Caller = {c1, c2, c3}
  Direct = {c3}
  Asks <- MCAsks
  MaxCandidates = 2
  Presets = 2
  NoArray = NoArray
  NoBody = NoBody
  NoAsk = NoAsk
  NoReply = NoReply
INVARIANTS AnswersAreMeasured EngineIsSpared
PROPERTIES EveryCallerIsAnswered
CHECK_DEADLOCK FALSE
