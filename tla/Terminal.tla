------------------------------ MODULE Terminal ------------------------------
(***************************************************************************)
(* The test program at work and the displays showing what it prints, with  *)
(* the reset button pressed at any time.  A store to address 0x2000 takes  *)
(* place in some clock; how many clocks the core takes for the program is  *)
(* left open.                                                              *)
(***************************************************************************)
EXTENDS Display, Program, FiniteSets

CONSTANT Strings,    \* what success may hold
         MaxResets   \* how often the button is pressed

ASSUME TextAssumption == Strings \subseteq Seq(Chars) /\ MaxResets \in Nat

VARIABLES
  m,         \* the program
  up,        \* whether the button is held down in the next clock
  flight,    \* a store that was in the core when the button went down: in how many clocks
  lost,      \* it takes place, 1 for the next, 0 when there is none left; and what it stores
  written,   \* the characters stored since the last reset
  before,    \* video memory when the button went down
  cut,       \* and the cell of the cursor then
  old,       \* video memory a clock ago
  resets,    \* how often the button was pressed
  started    \* whether there has been a clock

button == <<up, flight, lost, cut>>
history == <<written, before, old, resets, started>>
vars == <<display, m, button, history>>

Init ==
  /\ DisplayInit
  /\ \E s \in Strings : m = Start(s)
  /\ up = FALSE /\ flight = 0 /\ lost = {} /\ cut = 0
  /\ written = <<>> /\ before = vram /\ old = vram /\ resets = 0 /\ started = FALSE

\* What every clock does, whatever is stored.
Ticks == Scan /\ NextDigit /\ old' = vram /\ started' = TRUE

Compute ==
  /\ ~up
  /\ \/ m.pc = "square" /\ m' = Square(m)
     \/ m.pc = "multiply" /\ m' = Multiply(m)
     \/ m.pc = "copy" /\ m' = Copy(m)
  /\ UNCHANGED <<display, button, history>>

Clock == /\ ~up /\ flight = 0 /\ NoStore /\ Ticks
         /\ UNCHANGED <<m, button, written, before, resets>>

PrintChar == /\ ~up /\ flight = 0 /\ Prints(m) /\ Store(Next1(m)) /\ Ticks
             /\ m' = PutChar(m) /\ written' = Append(written, Next1(m))
             /\ UNCHANGED <<button, before, resets>>

\* A clock with the button down.  Of what the core has in it, only what it fetches is
\* replaced: a store in em takes place in this clock, one in de in the next and one in fd in
\* the one after that.  The program runs longer than that between two characters, so at most
\* one store, n clocks away, is on its way.
ResetClock(n, chars) ==
  /\ \/ n # 1 /\ ResetCursor
     \/ n = 1 /\ \E c \in chars : ResetStore(c)
  /\ Ticks
  /\ up' \in BOOLEAN /\ flight' = (IF n = 0 THEN 0 ELSE n - 1) /\ lost' = chars
  /\ m' = Start(m.chars) /\ written' = <<>>

\* The first clock of it.
Press ==
  /\ ~up /\ flight = 0 /\ resets < MaxResets
  /\ \/ ResetClock(0, {})
     \/ Prints(m) /\ \E n \in 1..3 : ResetClock(n, {Next1(m)})
  /\ before' = vram /\ cut' = WAddr /\ resets' = resets + 1

\* The button is still down, or down again before the store has taken place.
Hold == (up \/ flight > 0) /\ ResetClock(flight, lost) /\ UNCHANGED <<before, cut, resets>>

\* The button is up again, and the store is still to come: the first of the new text.
Late ==
  /\ ~up /\ flight > 0 /\ flight' = flight - 1
  /\ \/ flight # 1 /\ NoStore /\ UNCHANGED written
     \/ flight = 1 /\ \E c \in lost : Store(c) /\ written' = Append(written, c)
  /\ Ticks /\ UNCHANGED <<m, up, lost, cut, before, resets>>

Next == Compute \/ Clock \/ PrintChar \/ Press \/ Hold \/ Late

Spec == Init /\ [][Next]_vars

\* The clock does not stop.
FairSpec == Spec /\ WF_vars(Clock \/ PrintChar \/ Press \/ Hold \/ Late)

(***************************************************************************)
(* Properties.                                                             *)
(***************************************************************************)
\* The cursor is within the screen, so all that is stored lands in video memory.
TypeOK ==
  /\ posX \in 0 .. (Columns - 1) /\ posY \in 0 .. (Lines - 1)
  /\ vram \in [Cells -> DOMAIN Font \union {Blank}]
  /\ before \in [Cells -> DOMAIN Font \union {Blank}]
  /\ old \in [Cells -> DOMAIN Font \union {Blank}]
  /\ HD \in 0 .. (ScanMod - 1) /\ VD \in 0 .. (ScanMod - 1)
  /\ rData \in DOMAIN Font \union {Blank}
  /\ count \in 0 .. (CountMod - 1) /\ pos \in 0..7
  /\ m \in [pc : {"square", "multiply", "copy", "print"}, i : Nat,
            x : [1..(Elements * Width) -> 0 .. (ByteMod - 1)], array : [1..(Elements * Width) -> 0 .. (ByteMod - 1)],
            chars : Strings, mulx : Nat, muly : Nat, ans : 0 .. (IntMod - 1)]
  /\ up \in BOOLEAN /\ flight \in 0..3 /\ lost \in SUBSET Chars /\ cut \in Cells
  /\ written \in Seq(Chars) /\ resets \in 0..MaxResets /\ started \in BOOLEAN

\* Where the i-th character of a text belongs.  Its column is how many characters stand
\* between it and the line feed before it, as full lines go on below; its line is how many
\* lines have ended before it, with a line feed or because they were full.
Column(s, i) == Cardinality({j \in 1 .. (i - 1) : \A k \in j .. (i - 1) : s[k] # "LF"}) % Columns
EndsLine(s, i) == s[i] = "LF" \/ Column(s, i) = Columns - 1
Line(s, i) == Cardinality({j \in 1 .. (i - 1) : EndsLine(s, j)})

InCell(i, a) == Line(written, i) % Lines = a \div Columns /\ Column(written, i) = a % Columns

\* What a cell shows that no character of the text belongs in: what it showed when the button
\* went down, but for the one store that was on its way then and that the reset did not hold
\* back.  It is in the cell the cursor was at, or in the top left one.
LeftAlone(a) ==
  \/ vram[a] = before[a]
  \/ a \in {cut, 0} /\ \E c \in lost : vram[a] = WData(c)

\* The screen holds the text line by line, from the top left corner and again from there
\* when it is full: a cell shows the last character that belongs there.  Nothing else of
\* the screen changes, and only the word 10 ends a line.
ScreenShowsText ==
  \A a \in Cells :
    \/ (\A i \in DOMAIN written : ~InCell(i, a)) /\ LeftAlone(a)
    \/ \E i \in DOMAIN written :
         /\ InCell(i, a) /\ \A k \in DOMAIN written : InCell(k, a) => k <= i
         /\ vram[a] = IF written[i] \in DOMAIN Font THEN written[i] ELSE Blank

\* Every pixel shown is that of the cell it lies in, as it is or was a clock ago, although
\* memory answers late and is written to at any time.
PictureIsCurrent ==
  started /\ En =>
    LET cell == Columns * (VD \div GlyphH) + HD \div GlyphW
    IN OutputPixel \in {Bit(vram[cell], HD, VD), Bit(old[cell], HD, VD)}

\* When the program prints, the array it copied holds the squares.
SquaresAreCopied ==
  m.pc = "print" =>
    \A i \in 0 .. (Elements - 1) :
      \A b \in 1..Width : m.array[i * Width + b] = Bytes((i * i) % IntMod)[b]

\* Every digit is shown again and again.
EveryDigitIsShown == \A p \in 0..7 : []<>(pos = p)
=============================================================================
