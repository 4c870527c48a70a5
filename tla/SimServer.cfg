SPECIFICATION FairSpec
CONSTANTS
  a = a
  b = b
  Conns = {a, b}
  Labels = 3
  MaxBehind = 1
  Scripts <- ScriptsValue
INVARIANTS
  UsersAreAlive
  NotTouchedAgain
  ReportsInOrder
PROPERTIES
  CommandTakesEffect
  GoneIsDropped
