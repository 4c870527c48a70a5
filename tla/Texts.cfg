SPECIFICATION Spec
CONSTANTS
  Pieces <- PiecesValue
  Longest <- LongestValue
  RuleSets <- RuleSetsValue
  Kinds <- KindsValue
  Published <- PublishedValue
  MaxPairs = 3
INVARIANTS
  JsonAsGrammar
  SaidAsSent
  TrieFindsFirstRule
  AnswersAsRouted
  PairsAsSplit
  AnswersTheKey
  DecodesAsEncoded
CHECK_DEADLOCK FALSE
