SPECIFICATION ResetSpec
CONSTANTS
  W = 3
  RegCount = 2
  NOP = 0
  Decode <- MCDecode
  PowerUp = {"zero", "nop"}
  Inputs <- MCInputs
INVARIANTS
  ForwardIsWriteback
  WrongPathDiscarded
  ZeroRegister
  NothingSurvivesReset
  ResetSettles
