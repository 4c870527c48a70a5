SPECIFICATION SessionSpec
CONSTANTS
  W = 4
  RegCount = 1
  NOP = 0
  Decode <- MCDecode
  PowerUp = {"zero", "nop"}
  IMemWords = 2
  DMemWords = 2
  DMemBase = 4
  IOBase = 12
  PackageInputs <- MCInputs
  IMemImages <- MCIMem
  DMemImages <- MCDMem
  Ops <- MCOps
  Args <- MCArgs
  Hosts <- MCHosts
INVARIANTS
  WriteCycleIsQuiet
  StepIsOnePulse
PROPERTIES
  ImplementsPort
