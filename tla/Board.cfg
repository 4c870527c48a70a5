SPECIFICATION FairBoardSpec
CONSTANTS
  W = 4
  RegCount = 2
  NOP = 0
  Decode <- MCDecode
  PowerUp = {"zero"}
  IMemWords = 4
  DMemWords = 2
  DMemBase = 8
  IOBase = 16
  PackageInputs = {}
  IMemImages <- MCIMem
  DMemImages <- MCDMem
  IRom <- MCIRom
  DRom <- MCDRom
  RomDepth = 4
  RomBeyond <- MCBeyond
  Switches <- MCSwitches
INVARIANTS
  BoardTypeOK
  EveryPulseIsTaken
  LoadsCode
PROPERTIES
  LoadEnds
  ShowsSelected
