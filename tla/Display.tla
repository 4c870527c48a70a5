------------------------------ MODULE Display ------------------------------
(***************************************************************************)
(* The displays of the board, clock by clock.  On the VGA screen,          *)
(* DataManager puts the characters the core stores into video memory, one  *)
(* behind the other, while Scanner and Display read it out.  On the seven  *)
(* segment display the digits take turns.  A character is a member of      *)
(* Chars; "LF" is the word 10, "high LF" a word with 10 in its low byte    *)
(* and something above it.                                                 *)
(***************************************************************************)
EXTENDS Integers, Sequences

CONSTANTS
  Columns, Lines,         \* characters, 80 by 30 in the code
  GlyphW, GlyphH,         \* pixels of a character, 8 by 16
  BlankH, BlankV,         \* clocks of a line, lines of a frame, that are not visible
  ScanMod,                \* 2^12, where the scan's counters wrap
  Font,                   \* by printable character, its rows of bits, the lowest bit first
  Clk, CountMod           \* clocks of a digit less one; 2^16, where the count wraps

VARIABLES
  posX, posY,     \* the cursor
  vram,           \* video memory
  HD, VD,         \* where the scan is
  rData,          \* what video memory answers, a clock after it was asked
  count, pos      \* the digit that is shown and for how long it has been

text == <<posX, posY>>
scan == <<HD, VD, rData>>
segments == <<count, pos>>
display == <<text, vram, scan, segments>>

Blank == "blank"
Chars == DOMAIN Font \union {Blank, "LF", "high LF", "NUL"}
Cells == 0 .. (Columns * Lines - 1)
VisibleH == Columns * GlyphW
VisibleV == Lines * GlyphH

\* The count must be able to get to Clk.  It is 25000 for the 25 MHz the generator takes by
\* default; the 100000 that the class has as default would not do.
ASSUME DisplayAssumption ==
  /\ {Columns, Lines, GlyphW, GlyphH} \subseteq Nat \ {0}
  /\ {BlankH, BlankV, ScanMod, Clk, CountMod} \subseteq Nat
  /\ VisibleH + BlankH < ScanMod /\ VisibleV + BlankV < ScanMod
  /\ Font \in [DOMAIN Font -> [0 .. (GlyphH - 1) -> [0 .. (GlyphW - 1) -> {0, 1}]]]
  /\ Clk < CountMod

(***************************************************************************)
(* DataManager.                                                            *)
(***************************************************************************)
WAddr == posY * Columns + posX
WData(c) == IF c \in DOMAIN Font THEN c ELSE Blank
Write(c) == vram' = [vram EXCEPT ![WAddr] = WData(c)]

\* Fault: after a full line its own line feed is swallowed.
StoreSwallow(c) ==
  LET newline == posX = Columns - 1 \/ (c = "LF" /\ posX # 0)
  IN /\ Write(c)
     /\ posX' = IF newline \/ c = "LF" THEN 0 ELSE posX + 1
     /\ posY' = IF newline THEN (IF posY = Lines - 1 THEN 0 ELSE posY + 1) ELSE posY

Store(c) ==
  LET newline == posX = Columns - 1 \/ c = "LF"
  IN /\ Write(c)
     /\ posX' = IF newline THEN 0 ELSE posX + 1
     /\ posY' = IF newline THEN (IF posY = Lines - 1 THEN 0 ELSE posY + 1) ELSE posY

NoStore == UNCHANGED <<text, vram>>

\* A clock under reset.  The reset goes to the cursor alone: video memory's write enable is
\* not gated by it, so a character stored in this clock is written where the cursor was.
ResetCursor == posX' = 0 /\ posY' = 0 /\ UNCHANGED vram
ResetStore(c) == posX' = 0 /\ posY' = 0 /\ Write(c)

(***************************************************************************)
(* Scanner.                                                                *)
(***************************************************************************)
LastH == VisibleH + BlankH - 1
LastV == VisibleV + BlankV - 1

HDNext == IF HD >= LastH THEN 0 ELSE (HD + 1) % ScanMod

VDNext == IF HD >= LastH THEN (IF VD >= LastV THEN 0 ELSE (VD + 1) % ScanMod) ELSE VD

En     == HD < VisibleH /\ VD < VisibleV
EnNext == HDNext < VisibleH /\ VDNext < VisibleV

(***************************************************************************)
(* Display: the address is that of the pixel to come.                      *)
(***************************************************************************)
\* Fault: the address is that of the pixel now shown.
RAddrNow == IF En THEN Columns * (VD \div GlyphH) + HD \div GlyphW ELSE 0

RAddr == IF EnNext THEN Columns * (VDNext \div GlyphH) + HDNext \div GlyphW ELSE 0

\* A pixel of a character: its bits are shown from the highest on, then from the lowest.
Bit(c, x, y) == IF c \in DOMAIN Font THEN Font[c][y % GlyphH][(x + GlyphW - 1) % GlyphW] ELSE 0

OutputPixel == IF En THEN Bit(rData, HD, VD) ELSE 0

\* The video memory is a block of the FPGA; which of two words it reads that is being
\* written is left to the build.
Scan == /\ HD' = HDNext /\ VD' = VDNext
        /\ rData' \in {vram[RAddr], vram'[RAddr]}

(***************************************************************************)
(* SegmentDisplay.                                                         *)
(***************************************************************************)
\* Fault: the count is to get past Clk.
NextDigitPast == IF count > Clk THEN count' = 0 /\ pos' = (pos + 1) % 8
                 ELSE count' = (count + 1) % CountMod /\ UNCHANGED pos

NextDigit == IF count >= Clk THEN count' = 0 /\ pos' = (pos + 1) % 8
             ELSE count' = (count + 1) % CountMod /\ UNCHANGED pos

\* Registers without a reset begin anywhere.
DisplayInit ==
  /\ posX = 0 /\ posY = 0
  /\ vram = [a \in Cells |-> Blank]
  /\ HD \in {0, LastH + 1} /\ VD \in {0, LastV + 1} /\ rData \in {Blank} \union DOMAIN Font
  /\ count \in {0, CountMod - 1} /\ pos = 0
=============================================================================
