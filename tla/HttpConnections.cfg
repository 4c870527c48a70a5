SPECIFICATION FairSpec
CONSTANTS
  c1 = c1
  c2 = c2
  Conns = {c1, c2}
  Tick = 2
  Scripts <- ScriptsValue
INVARIANTS
  OwnAnswers
  NoLateCompletion
  DeadlineMatches
PROPERTIES
  EveryConnectionEnds
CHECK_DEADLOCK FALSE
