SPECIFICATION FairSpec
CONSTANTS
  Columns = 2
  Lines = 2
  GlyphW = 2
  GlyphH = 2
  BlankH = 4
  BlankV = 4
  ScanMod = 16
  Font <- FontValue
  Clk = 1
  CountMod = 2
  Elements = 3
  Width = 2
  ByteMod = 2
  Strings <- StringsValue
  MaxResets = 1

INVARIANTS
  ScreenShowsText
  PictureIsCurrent
  SquaresAreCopied
PROPERTIES
  EveryDigitIsShown
