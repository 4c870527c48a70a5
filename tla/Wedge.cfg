SPECIFICATION FairRunSpec
CONSTANTS
  W = 4
  RegCount = 4
  NOP = 0
  Decode <- MCDecode
  PowerUp = {"nop"}
  IMemWords = 4
  DMemWords = 2
  DMemBase = 4
  IOBase = 12
  PackageInputs = {}
  IMemImages <- MCJump
  DMemImages <- MCData
PROPERTIES
  KeepsExecuting
