SPECIFICATION Spec
CONSTANTS
  MaxHeader = 60
  MaxLength = 255
  Scripts <- ScriptsValue
  Strays <- StraysValue
  MaxStrays = 1
INVARIANTS
  DeliveredAsSent
  AssertsHold
  MethodIsSpelled
  LengthIsRead
CHECK_DEADLOCK FALSE
