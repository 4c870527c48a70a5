--------------------------- MODULE TerminalProofs ---------------------------
(***************************************************************************)
(* Proofs about the displays and the test program that prints to them, for *)
(* every size of the screen, of a character, of the blanking and of an     *)
(* int, for every font and every text: what is stored lands in video       *)
(* memory, the screen holds the text, the picture is that of the screen,   *)
(* and the program computes what main is meant to compute.                 *)
(***************************************************************************)
EXTENDS Terminal, FiniteSetTheorems, SequenceTheorems, TLAPS

-----------------------------------------------------------------------------
(***************************************************************************)
(* Division.                                                               *)
(***************************************************************************)
LEMMA Euclid ==
  ASSUME NEW N \in Nat \ {0}, NEW x \in Int
  PROVE  /\ x \div N \in Int /\ x % N \in 0 .. (N - 1)
         /\ x = (N * (x \div N)) + (x % N)
OBVIOUS

\* Only one quotient and one remainder fit.
LEMMA Unique ==
  ASSUME NEW N \in Nat \ {0}, NEW x \in Int, NEW q \in Int, NEW r \in 0 .. (N - 1),
         x = N * q + r
  PROVE  x % N = r /\ x \div N = q
<1> DEFINE e == x \div N
           s == x % N
           d == q - e
<1>1. e \in Int /\ s \in 0 .. (N - 1) /\ x = N * e + s
  BY Euclid
<1> HIDE DEF e, s
<1>2. N * d = N * q - N * e /\ d \in Int
  BY <1>1
<1>3. N * d < N /\ N * d > -N
  BY <1>1, <1>2
<1>4. \A k \in Int : (k >= 1 => N * k >= N) /\ (k <= -1 => N * k <= -N)
  OBVIOUS
<1> HIDE DEF d
<1>5. d = 0
  BY <1>2, <1>3, <1>4
<1> QED
  BY <1>1, <1>5 DEF d, e, s

LEMMA Products ==
  ASSUME NEW N \in Int, NEW a \in Int, NEW b \in Int
  PROVE  /\ N * a \in Int /\ N * (a + b) = N * a + N * b
         /\ N * (a - b) = N * a - N * b /\ N * a = a * N
OBVIOUS

LEMMA Shift ==
  ASSUME NEW N \in Nat \ {0}, NEW x \in Int, NEW k \in Int
  PROVE  (x + N * k) % N = x % N
<1> DEFINE e == x \div N
           s == x % N
<1>1. e \in Int /\ s \in 0 .. (N - 1) /\ x = N * e + s
  BY Euclid
<1> HIDE DEF e, s
<1>2. x + N * k = N * (e + k) + s /\ x + N * k \in Int /\ e + k \in Int
  BY <1>1, Products
<1>3. (x + N * k) % N = s
  BY <1>1, <1>2, Unique
<1> QED
  BY <1>3 DEF s

\* A counter that wraps is the number of steps, modulo where it wraps.
LEMMA Successor ==
  ASSUME NEW N \in Nat \ {0}, NEW x \in Nat
  PROVE  /\ x % N \in 0 .. (N - 1)
         /\ (x + 1) % N = IF x % N = N - 1 THEN 0 ELSE (x % N) + 1
<1> DEFINE e == x \div N
           s == x % N
<1>1. e \in Int /\ s \in 0 .. (N - 1) /\ x = N * e + s
  BY Euclid
<1> HIDE DEF e, s
<1>2. CASE s = N - 1
  <2>1. x + 1 = N * (e + 1) + 0 /\ e + 1 \in Int /\ 0 \in 0 .. (N - 1) /\ x + 1 \in Int
    BY <1>1, <1>2, Products
  <2>2. (x + 1) % N = 0
    BY <2>1, Unique
  <2> QED
    BY <1>1, <1>2, <2>2 DEF s
<1>3. CASE s # N - 1
  <2>1. x + 1 = N * e + (s + 1) /\ s + 1 \in 0 .. (N - 1) /\ x + 1 \in Int
    BY <1>1, <1>3, Products
  <2>2. (x + 1) % N = s + 1
    BY <1>1, <2>1, Unique
  <2> QED
    BY <1>1, <1>3, <2>2 DEF s
<1> QED
  BY <1>2, <1>3

\* A quotient is below b when the dividend is below b times the divisor.
LEMMA Quotient ==
  ASSUME NEW N \in Nat \ {0}, NEW b \in Nat, NEW x \in Nat, x < b * N
  PROVE  x \div N \in 0 .. (b - 1)
<1> DEFINE e == x \div N
           s == x % N
<1>1. e \in Int /\ s \in 0 .. (N - 1) /\ x = N * e + s
  BY Euclid
<1> HIDE DEF e, s
<1>2. \A k \in Int : k <= -1 => N * k <= -N
  OBVIOUS
<1>3. e >= 0
  BY <1>1, <1>2
<1>4. N * (b - e) > 0 /\ b - e \in Int
  BY <1>1, Products
<1>5. \A k \in Int : k <= 0 => N * k <= 0
  OBVIOUS
<1>6. b - e >= 1
  BY <1>4, <1>5
<1> QED
  BY <1>1, <1>3, <1>6 DEF e

-----------------------------------------------------------------------------
(***************************************************************************)
(* Cells.                                                                  *)
(***************************************************************************)
\* A line and a column make an address, of which they are quotient and remainder.
LEMMA CellOf ==
  ASSUME NEW y \in 0 .. (Lines - 1), NEW x \in 0 .. (Columns - 1)
  PROVE  /\ y * Columns + x \in Cells
         /\ (y * Columns + x) \div Columns = y /\ (y * Columns + x) % Columns = x
         /\ \A a \in Cells : (a \div Columns = y /\ a % Columns = x) <=> a = y * Columns + x
<1>1. Columns \in Nat \ {0} /\ Lines \in Nat \ {0} /\ y \in Int /\ x \in Int /\ x \in 0 .. (Columns - 1)
  BY DisplayAssumption
<1> DEFINE w == y * Columns + x
<1>2. w = Columns * y + x /\ w \in Int
  BY <1>1, Products
<1>3. w \div Columns = y /\ w % Columns = x
  BY <1>1, <1>2, Unique
<1>4. w \in Cells
  <2>1. \A k \in Nat : Columns * k >= 0
    BY <1>1
  <2>2. Columns * ((Lines - 1) - y) >= 0
    BY <1>1, <2>1
  <2>3. Columns * ((Lines - 1) - y) = Columns * Lines - Columns * 1 - Columns * y
    BY <1>1, Products
  <2>4. Columns * y >= 0
    BY <1>1, <2>1
  <2> QED
    BY <1>1, <1>2, <2>2, <2>3, <2>4 DEF Cells
<1>5. ASSUME NEW a \in Cells, a \div Columns = y, a % Columns = x
      PROVE  a = w
  <2>1. a \in Int
    BY <1>1, <1>5 DEF Cells
  <2>2. a = Columns * (a \div Columns) + (a % Columns)
    BY <1>1, <2>1, Euclid
  <2> QED
    BY <1>2, <1>5, <2>2
<1> HIDE DEF w
<1>6. ASSUME NEW a \in Cells
      PROVE  (a \div Columns = y /\ a % Columns = x) <=> a = w
  BY <1>3, <1>5
<1> QED
  BY <1>3, <1>4, <1>6 DEF w

\* The scan asks for a cell of video memory, whether its pixel is visible or not.
LEMMA AsksInside ==
  ASSUME TypeOK PROVE RAddr \in Cells /\ HDNext \in 0 .. (ScanMod - 1) /\ VDNext \in 0 .. (ScanMod - 1)
<1>1. /\ Columns \in Nat \ {0} /\ Lines \in Nat \ {0} /\ GlyphW \in Nat \ {0} /\ GlyphH \in Nat \ {0}
      /\ ScanMod \in Nat /\ HD \in 0 .. (ScanMod - 1) /\ VD \in 0 .. (ScanMod - 1)
  BY DisplayAssumption DEF TypeOK
<1>2. ScanMod \in Nat \ {0}
  BY <1>1
<1>3. HDNext \in 0 .. (ScanMod - 1) /\ VDNext \in 0 .. (ScanMod - 1)
  <2>1. (HD + 1) % ScanMod \in 0 .. (ScanMod - 1) /\ (VD + 1) % ScanMod \in 0 .. (ScanMod - 1)
    BY <1>1, <1>2, Euclid
  <2> QED
    BY <1>1, <1>2, <2>1 DEF HDNext, VDNext
<1>4. CASE EnNext
  <2>1. HDNext \in Nat /\ VDNext \in Nat /\ HDNext < Columns * GlyphW /\ VDNext < Lines * GlyphH
    BY <1>1, <1>2, <1>3, <1>4 DEF EnNext, VisibleH, VisibleV
  <2> DEFINE x == HDNext \div GlyphW
             y == VDNext \div GlyphH
  <2>2. x \in 0 .. (Columns - 1) /\ y \in 0 .. (Lines - 1)
    BY <1>1, <2>1, Quotient
  <2>3. RAddr = Columns * y + x
    BY <1>4 DEF RAddr
  <2> HIDE DEF x, y
  <2>4. Columns * y + x = y * Columns + x
    BY <1>1, <2>2, Products
  <2> QED
    BY <1>3, <2>2, <2>3, <2>4, CellOf
<1>5. CASE ~EnNext
  <2>1. 0 \in 0 .. (Lines - 1) /\ 0 \in 0 .. (Columns - 1) /\ 0 * Columns + 0 = 0
    BY <1>1
  <2>2. 0 \in Cells
    BY <2>1, CellOf
  <2> QED
    BY <1>3, <1>5, <2>2 DEF RAddr
<1> QED
  BY <1>4, <1>5

-----------------------------------------------------------------------------
(***************************************************************************)
(* Where a character belongs: one step further in the text.                *)
(***************************************************************************)
\* How far a character is from the line feed before it.
Run(s, i) == {j \in 1 .. (i - 1) : \A k \in j .. (i - 1) : s[k] # "LF"}
Ended(s, i) == {j \in 1 .. (i - 1) : EndsLine(s, j)}

LEMMA Counted ==
  ASSUME NEW n \in Nat, NEW S \in SUBSET (1 .. n)
  PROVE  IsFiniteSet(S) /\ Cardinality(S) \in Nat
<1>1. IsFiniteSet(1 .. n)
  BY FS_Interval
<1> QED
  BY <1>1, FS_Subset, FS_CardinalityType

LEMMA PlaceType ==
  ASSUME NEW s, NEW i \in Nat \ {0}
  PROVE  /\ IsFiniteSet(Run(s, i)) /\ Cardinality(Run(s, i)) \in Nat
         /\ IsFiniteSet(Ended(s, i)) /\ Line(s, i) \in Nat
         /\ Column(s, i) = Cardinality(Run(s, i)) % Columns /\ Column(s, i) \in 0 .. (Columns - 1)
         /\ Line(s, i) = Cardinality(Ended(s, i)) /\ Line(s, i) % Lines \in 0 .. (Lines - 1)
<1>1. Run(s, i) \in SUBSET (1 .. (i - 1)) /\ Ended(s, i) \in SUBSET (1 .. (i - 1)) /\ i - 1 \in Nat
  BY DEF Run, Ended
<1>2. /\ IsFiniteSet(Run(s, i)) /\ Cardinality(Run(s, i)) \in Nat
      /\ IsFiniteSet(Ended(s, i)) /\ Cardinality(Ended(s, i)) \in Nat
  BY <1>1, Counted
<1>3. Columns \in Nat \ {0} /\ Lines \in Nat \ {0}
  BY DisplayAssumption
<1>4. Column(s, i) = Cardinality(Run(s, i)) % Columns
  BY DEF Column, Run
<1>5. Line(s, i) = Cardinality(Ended(s, i))
  BY DEF Line, Ended
<1>6. \A x \in Nat, N \in Nat \ {0} : x % N \in 0 .. (N - 1)
  BY Successor
<1>7. Column(s, i) \in 0 .. (Columns - 1) /\ Line(s, i) % Lines \in 0 .. (Lines - 1)
  BY <1>2, <1>3, <1>4, <1>5, <1>6
<1> QED
  BY <1>2, <1>4, <1>5, <1>7

LEMMA FirstPlace == ASSUME NEW s PROVE Column(s, 1) = 0 /\ Line(s, 1) = 0
<1>1. Run(s, 1) = {} /\ Ended(s, 1) = {}
  BY DEF Run, Ended
<1>2. Columns \in Nat \ {0} /\ 0 = Columns * 0 + 0 /\ 0 \in 0 .. (Columns - 1)
  BY DisplayAssumption
<1>3. 0 % Columns = 0
  BY <1>2, Unique
<1> QED
  BY <1>1, <1>3, FS_EmptySet, PlaceType

\* The next character stands behind it, or at the start of the next line.
LEMMA NextPlace ==
  ASSUME NEW s, NEW i \in Nat \ {0}
  PROVE  /\ Column(s, i + 1) = IF EndsLine(s, i) THEN 0 ELSE Column(s, i) + 1
         /\ Line(s, i + 1) = IF EndsLine(s, i) THEN Line(s, i) + 1 ELSE Line(s, i)
<1>0. i + 1 \in Nat \ {0} /\ Columns \in Nat \ {0}
  BY DisplayAssumption
<1>1. Column(s, i + 1) = IF EndsLine(s, i) THEN 0 ELSE Column(s, i) + 1
  <2>1. CASE s[i] = "LF"
    <3>1. Run(s, i + 1) = {}
      BY <2>1 DEF Run
    <3>2. 0 = Columns * 0 + 0 /\ 0 \in 0 .. (Columns - 1)
      BY <1>0
    <3>3. 0 % Columns = 0
      BY <1>0, <3>2, Unique
    <3> QED
      BY <1>0, <2>1, <3>1, <3>3, FS_EmptySet, PlaceType DEF EndsLine
  <2>2. CASE s[i] # "LF"
    <3>1. Run(s, i + 1) = Run(s, i) \union {i} /\ i \notin Run(s, i)
      BY <2>2 DEF Run
    <3>2. Cardinality(Run(s, i + 1)) = Cardinality(Run(s, i)) + 1
      BY <3>1, PlaceType, FS_AddElement
    <3>3. (Cardinality(Run(s, i)) + 1) % Columns
            = IF Column(s, i) = Columns - 1 THEN 0 ELSE Column(s, i) + 1
      BY <1>0, PlaceType, Successor
    <3> QED
      BY <1>0, <2>2, <3>2, <3>3, PlaceType DEF EndsLine
  <2> QED
    BY <2>1, <2>2
<1>2. Line(s, i + 1) = IF EndsLine(s, i) THEN Line(s, i) + 1 ELSE Line(s, i)
  <2>1. CASE EndsLine(s, i)
    <3>1. Ended(s, i + 1) = Ended(s, i) \union {i} /\ i \notin Ended(s, i)
      BY <2>1 DEF Ended
    <3> QED
      BY <1>0, <2>1, <3>1, PlaceType, FS_AddElement
  <2>2. CASE ~EndsLine(s, i)
    <3>1. Ended(s, i + 1) = Ended(s, i)
      BY <2>2 DEF Ended
    <3> QED
      BY <1>0, <2>2, <3>1, PlaceType
  <2> QED
    BY <2>1, <2>2
<1> QED
  BY <1>1, <1>2

\* What follows a character has no part in where it belongs.
LEMMA PlaceKept ==
  ASSUME NEW s \in Seq(Chars), NEW c \in Chars, NEW i \in 1 .. (Len(s) + 1)
  PROVE  Column(Append(s, c), i) = Column(s, i) /\ Line(Append(s, c), i) = Line(s, i)
<1> DEFINE t == Append(s, c)
<1>1. \A k \in 1 .. Len(s) : t[k] = s[k]
  BY AppendProperties
<1>2. Len(s) \in Nat
  BY LenProperties
<1> HIDE DEF t
<1>3. \A j \in 1 .. (Len(s) + 1) : Column(t, j) = Column(s, j)
  <2> SUFFICES ASSUME NEW j \in 1 .. (Len(s) + 1) PROVE Column(t, j) = Column(s, j)
    OBVIOUS
  <2>1. Run(t, j) = Run(s, j)
    BY <1>1, <1>2 DEF Run
  <2> QED
    BY <1>2, <2>1, PlaceType
<1>4. \A j \in 1 .. Len(s) : EndsLine(t, j) <=> EndsLine(s, j)
  BY <1>1, <1>2, <1>3 DEF EndsLine
<1>5. Ended(t, i) = Ended(s, i)
  BY <1>2, <1>4 DEF Ended
<1> QED
  BY <1>2, <1>3, <1>5, PlaceType DEF t

-----------------------------------------------------------------------------
(***************************************************************************)
(* Types.                                                                  *)
(***************************************************************************)
Words == [1 .. (Elements * Width) -> 0 .. (ByteMod - 1)]

LEMMA BytesType ==
  ASSUME NEW n \in Nat, NEW b \in 1 .. Width
  PROVE  Bytes(n)[b] \in 0 .. (ByteMod - 1)
<1>1. /\ b - 1 \in 0 .. Width /\ ByteMod \in Nat \ {0} /\ Width \in Nat
  BY ProgramAssumption
<1>2. ByteMod^(b - 1) \in Nat \ {0}
  BY <1>1, ProgramAssumption
<1>3. n \div ByteMod^(b - 1) \in Int
  BY <1>2, Euclid
<1> QED
  BY <1>1, <1>3, Euclid DEF Bytes

\* The bytes of one number are replaced, the others stay.
LEMMA AssignType ==
  ASSUME NEW x \in Words, NEW i \in Nat, NEW n \in Nat
  PROVE  Assign(x, i, n) \in Words
<1> SUFFICES ASSUME NEW b \in 1 .. (Elements * Width)
             PROVE  Assign(x, i, n)[b] \in 0 .. (ByteMod - 1)
  BY DEF Words, Assign
<1>1. x[b] \in 0 .. (ByteMod - 1) /\ DOMAIN x = 1 .. (Elements * Width)
  BY DEF Words
<1>2. Width \in Nat \ {0} /\ b - 1 \in Int
  BY ProgramAssumption
<1>3. (b - 1) % Width \in 0 .. (Width - 1)
  BY <1>2, Euclid
<1>4. Bytes(n)[((b - 1) % Width) + 1] \in 0 .. (ByteMod - 1)
  <2> DEFINE r == (b - 1) % Width
  <2>1. r + 1 \in 1 .. Width
    BY <1>2, <1>3
  <2> HIDE DEF r
  <2> QED
    BY <2>1, BytesType DEF r
<1> QED
  BY <1>1, <1>4 DEF Assign

Programs == [pc : {"square", "multiply", "copy", "print"}, i : Nat, x : Words, array : Words,
             chars : Strings, mulx : Nat, muly : Nat, ans : 0 .. (IntMod - 1)]

LEMMA IntType == IntMod \in Nat \ {0} /\ 0 \in 0 .. (IntMod - 1)
BY ProgramAssumption DEF IntMod

LEMMA StartType == ASSUME NEW s \in Strings PROVE Start(s) \in Programs
<1>1. Zeros \in Words
  BY ProgramAssumption DEF Zeros, Words
<1> QED
  BY <1>1, IntType DEF Start, Programs

\* Halves, and what is added modulo the size of an int.
LEMMA RoundType ==
  ASSUME NEW a \in Nat, NEW b \in Nat, NEW c \in 0 .. (IntMod - 1)
  PROVE  /\ a % 2 \in {0, 1} /\ a \div 2 \in Nat /\ a = 2 * (a \div 2) + (a % 2)
         /\ (2 * b) % IntMod \in 0 .. (IntMod - 1) /\ (c + b) % IntMod \in 0 .. (IntMod - 1)
<1>1. a % 2 \in {0, 1} /\ a \div 2 \in Nat /\ a = 2 * (a \div 2) + (a % 2)
  OBVIOUS
<1>2. 2 * b \in Nat /\ c + b \in Nat
  BY IntType
<1> QED
  BY <1>1, <1>2, IntType, Euclid

LEMMA SquareType == ASSUME NEW p \in Programs PROVE Square(p) \in Programs
BY IntType DEF Square, Programs

LEMMA MultiplyType == ASSUME NEW p \in Programs PROVE Multiply(p) \in Programs
<1> DEFINE sum == IF p.mulx % 2 = 1 THEN (p.ans + p.muly) % IntMod ELSE p.ans
<1>1. /\ p.mulx \in Nat /\ p.muly \in Nat /\ p.ans \in 0 .. (IntMod - 1) /\ p.i \in Nat /\ p.x \in Words
  BY DEF Programs
<1>2. /\ p.mulx \div 2 \in Nat /\ (2 * p.muly) % IntMod \in Nat
      /\ sum \in 0 .. (IntMod - 1) /\ sum \in Nat
  BY <1>1, RoundType, IntType
<1>3. Assign(p.x, p.i, sum) \in Words
  BY <1>1, <1>2, AssignType
<1>4. Multiply(p) = IF p.mulx \div 2 = 0
                    THEN [p EXCEPT !.pc = "square", !.i = @ + 1, !.x = Assign(@, p.i, sum)]
                    ELSE [p EXCEPT !.mulx = @ \div 2, !.muly = (2 * @) % IntMod, !.ans = sum]
  BY DEF Multiply
<1> HIDE DEF sum
<1>5. CASE p.mulx \div 2 = 0
  <2> DEFINE y == Assign(p.x, p.i, sum)
  <2>1. y \in Words /\ p.i + 1 \in Nat
    BY <1>1, <1>3
  <2>2. Multiply(p) = [p EXCEPT !.pc = "square", !.i = p.i + 1, !.x = y]
    BY <1>4, <1>5 DEF Programs
  <2> HIDE DEF y
  <2> QED
    BY <2>1, <2>2 DEF Programs
<1>6. CASE p.mulx \div 2 # 0
  <2> DEFINE h == p.mulx \div 2
             d == (2 * p.muly) % IntMod
  <2>1. h \in Nat /\ d \in Nat
    BY <1>2
  <2>2. Multiply(p) = [p EXCEPT !.mulx = h, !.muly = d, !.ans = sum]
    BY <1>4, <1>6 DEF Programs
  <2> HIDE DEF h, d
  <2> QED
    BY <1>2, <2>1, <2>2 DEF Programs
<1> QED
  BY <1>5, <1>6

LEMMA CopyType ==
  ASSUME NEW p \in Programs, p.i <= Elements * Width PROVE Copy(p) \in Programs
<1>1. CASE p.i = Elements * Width
  BY <1>1 DEF Copy, Programs
<1>2. CASE p.i # Elements * Width
  <2>1. p.i + 1 \in 1 .. (Elements * Width) /\ p.x \in Words /\ p.array \in Words
    BY <1>2, ProgramAssumption DEF Programs
  <2>2. [p.array EXCEPT ![p.i + 1] = p.x[p.i + 1]] \in Words
    BY <2>1 DEF Words
  <2> DEFINE y == [p.array EXCEPT ![p.i + 1] = p.x[p.i + 1]]
  <2>3. Copy(p) = [p EXCEPT !.i = p.i + 1, !.array = y]
    BY <1>2 DEF Copy, Programs
  <2>4. p.i + 1 \in Nat
    BY DEF Programs
  <2> HIDE DEF y
  <2> QED
    BY <2>2, <2>3, <2>4 DEF Programs, y
<1> QED
  BY <1>1, <1>2

LEMMA PutType == ASSUME NEW p \in Programs PROVE PutChar(p) \in Programs
BY DEF PutChar, Programs

Shown == DOMAIN Font \union {Blank}

\* What every clock does to the scan and the digits.
LEMMA TicksType ==
  ASSUME TypeOK, Ticks, vram' \in [Cells -> Shown]
  PROVE  /\ HD' \in 0 .. (ScanMod - 1) /\ VD' \in 0 .. (ScanMod - 1) /\ rData' \in Shown
         /\ count' \in 0 .. (CountMod - 1) /\ pos' \in 0..7
         /\ old' \in [Cells -> Shown] /\ started' \in BOOLEAN
<1>1. vram \in [Cells -> Shown] /\ count \in 0 .. (CountMod - 1) /\ pos \in 0..7
  BY DEF TypeOK, Shown
<1>2. HD' \in 0 .. (ScanMod - 1) /\ VD' \in 0 .. (ScanMod - 1) /\ rData' \in Shown
  BY <1>1, AsksInside DEF Ticks, Scan
<1>3. count' \in 0 .. (CountMod - 1) /\ pos' \in 0..7
  <2>1. CountMod \in Nat \ {0}
    BY <1>1, DisplayAssumption
  <2>2. (count + 1) % CountMod \in 0 .. (CountMod - 1) /\ (pos + 1) % 8 \in 0..7
    BY <1>1, <2>1, Euclid
  <2> QED
    BY <1>1, <2>1, <2>2 DEF Ticks, NextDigit
<1> QED
  BY <1>1, <1>2, <1>3 DEF Ticks

-----------------------------------------------------------------------------
(***************************************************************************)
(* The program.  Each round of the multiplication keeps, modulo the size   *)
(* of an int, the product still to be made and what has been added up.     *)
(***************************************************************************)
Squared(x, j) == \A b \in 1 .. Width : x[j * Width + b] = Bytes((j * j) % IntMod)[b]

Computes(p) ==
  /\ p.pc = "square" => p.i <= Elements /\ \A j \in 0 .. (p.i - 1) : Squared(p.x, j)
  /\ p.pc = "multiply" =>
       /\ p.i < Elements /\ \A j \in 0 .. (p.i - 1) : Squared(p.x, j)
       /\ (p.mulx * p.muly + p.ans) % IntMod = (p.i * p.i) % IntMod
  /\ p.pc = "copy" =>
       /\ p.i <= Elements * Width /\ \A j \in 0 .. (Elements - 1) : Squared(p.x, j)
       /\ \A b \in 1 .. p.i : p.array[b] = p.x[b]
  /\ p.pc = "print" => \A j \in 0 .. (Elements - 1) : Squared(p.array, j)

\* Where the bytes of an element lie.
LEMMA ElementBytes ==
  ASSUME NEW j \in 0 .. (Elements - 1), NEW b \in 1 .. Width
  PROVE  /\ j * Width + b \in 1 .. (Elements * Width)
         /\ ((j * Width + b) - 1) \div Width = j /\ ((j * Width + b) - 1) % Width = b - 1
<1>1. Elements \in Nat /\ Width \in Nat \ {0} /\ j \in Int /\ b - 1 \in 0 .. (Width - 1)
  BY ProgramAssumption
<1>2. (j * Width + b) - 1 = Width * j + (b - 1) /\ (j * Width + b) - 1 \in Int
  BY <1>1, Products
<1>3. \A k \in Nat : Width * k >= 0
  BY <1>1
<1>4. Width * ((Elements - 1) - j) >= 0 /\ Width * j >= 0
  BY <1>1, <1>3
<1>5. Width * ((Elements - 1) - j) = Width * Elements - Width * 1 - Width * j
  BY <1>1, Products
<1>6. j * Width + b \in 1 .. (Elements * Width)
  BY <1>1, <1>2, <1>4, <1>5
<1> QED
  BY <1>1, <1>2, <1>6, Unique

LEMMA Assigned ==
  ASSUME NEW x \in Words, NEW i \in 0 .. (Elements - 1), NEW n \in Nat,
         n = (i * i) % IntMod, \A j \in 0 .. (i - 1) : Squared(x, j)
  PROVE  \A j \in 0 .. i : Squared(Assign(x, i, n), j)
<1> SUFFICES ASSUME NEW j \in 0 .. i, NEW b \in 1 .. Width
             PROVE  Assign(x, i, n)[j * Width + b] = Bytes((j * j) % IntMod)[b]
  BY DEF Squared
<1>1. j \in 0 .. (Elements - 1) /\ b - 1 + 1 = b
  BY ProgramAssumption
<1> DEFINE k == j * Width + b
<1>2. k \in 1 .. (Elements * Width) /\ (k - 1) \div Width = j /\ (k - 1) % Width = b - 1
  BY <1>1, ElementBytes
<1>3. j # i => x[k] = Bytes((j * j) % IntMod)[b]
  BY DEF Squared
<1>4. DOMAIN x = 1 .. (Elements * Width)
  BY DEF Words
<1> HIDE DEF k
<1>5. Assign(x, i, n)[k] = IF j = i THEN Bytes(n)[b] ELSE x[k]
  BY <1>1, <1>2, <1>4 DEF Assign
<1> QED
  BY <1>3, <1>5 DEF k

\* A round.
Half(x) == x \div 2
Double(N, y) == (2 * y) % N
Sum(N, x, y, s) == IF x % 2 = 1 THEN (s + y) % N ELSE s

LEMMA Round ==
  ASSUME NEW N \in Nat \ {0}, NEW x \in Nat, NEW y \in Nat, NEW s \in 0 .. (N - 1)
  PROVE  /\ Sum(N, x, y, s) \in 0 .. (N - 1)
         /\ (Half(x) * Double(N, y) + Sum(N, x, y, s)) % N = (x * y + s) % N
         /\ Half(x) = 0 => Sum(N, x, y, s) = (x * y + s) % N
<1> DEFINE h == x \div 2
           r == x % 2
           sum == IF r = 1 THEN (s + y) % N ELSE s
           p == (2 * y) \div N
           d == (2 * y) % N
           q == IF r = 1 THEN (s + y) \div N ELSE 0
<1>1. h \in Int /\ r \in {0, 1} /\ x = 2 * h + r
  OBVIOUS
<1>2. p \in Int /\ d \in 0 .. (N - 1) /\ 2 * y = N * p + d
  <2>1. 2 * y \in Int
    OBVIOUS
  <2> QED
    BY <2>1, Euclid
<1>3. q \in Int /\ sum \in 0 .. (N - 1) /\ s + r * y = N * q + sum
  <2>1. s + y \in Int /\ s \in Int
    OBVIOUS
  <2>2. /\ (s + y) \div N \in Int /\ (s + y) % N \in 0 .. (N - 1)
        /\ s + y = N * ((s + y) \div N) + ((s + y) % N)
    BY <2>1, Euclid
  <2>3. CASE r = 1
    BY <2>2, <2>3
  <2>4. CASE r = 0
    BY <2>1, <2>4
  <2> QED
    BY <1>1, <2>3, <2>4
<1> HIDE DEF h, r, sum, p, d, q
<1>4. x * y = h * (2 * y) + r * y
  BY <1>1
<1>5. h * (2 * y) = N * (h * p) + h * d
  <2>1. h * (2 * y) = h * (N * p) + h * d
    BY <1>1, <1>2
  <2>2. h * (N * p) = N * (h * p)
    BY <1>1, <1>2
  <2> QED
    BY <2>1, <2>2
<1>6. /\ x * y + s = (h * d + sum) + N * (h * p + q)
      /\ h * d + sum \in Int /\ h * p + q \in Int
  <2>1. h * p \in Int /\ h * d \in Int /\ x * y \in Int /\ r * y \in Int /\ N * q \in Int /\ N * (h * p) \in Int
    BY <1>1, <1>2, <1>3
  <2>2. N * (h * p + q) = N * (h * p) + N * q
    BY <1>3, <2>1, Products
  <2> QED
    BY <1>3, <1>4, <1>5, <2>1, <2>2
<1>7. (x * y + s) % N = (h * d + sum) % N
  BY <1>6, Shift
<1>8. h = 0 => sum = (x * y + s) % N
  <2> SUFFICES ASSUME h = 0 PROVE sum = (x * y + s) % N
    OBVIOUS
  <2>1. h * d + sum = N * 0 + sum /\ sum \in Int
    BY <1>2, <1>3
  <2>2. (h * d + sum) % N = sum
    BY <1>3, <1>6, <2>1, Unique
  <2> QED
    BY <1>7, <2>2
<1> QED
  BY <1>3, <1>7, <1>8 DEF h, r, sum, d, Half, Double, Sum

LEMMA StartComputes == ASSUME NEW s PROVE Computes(Start(s))
BY ProgramAssumption DEF Start, Computes

LEMMA SquareComputes ==
  ASSUME NEW p \in Programs, p.pc = "square", Computes(p) PROVE Computes(Square(p))
<1>1. p.i \in Nat /\ p.i <= Elements /\ Elements \in Nat /\ Width \in Nat \ {0} /\ \A j \in 0 .. (p.i - 1) : Squared(p.x, j)
  BY ProgramAssumption DEF Computes, Programs
<1>2. CASE p.i = Elements
  <2>1. Square(p) = [p EXCEPT !.pc = "copy", !.i = 0]
    BY <1>2 DEF Square
  <2>2. 0 <= Elements * Width
    BY <1>1
  <2> QED
    BY <1>1, <1>2, <2>1, <2>2 DEF Computes, Programs
<1>3. CASE p.i # Elements
  <2>1. Square(p) = [p EXCEPT !.pc = "multiply", !.mulx = p.i, !.muly = p.i, !.ans = 0]
    BY <1>3 DEF Square
  <2> DEFINE z == Square(p)
  <2>2. z.pc = "multiply" /\ z.i = p.i /\ z.x = p.x /\ z.mulx = p.i /\ z.muly = p.i /\ z.ans = 0
    BY <2>1 DEF Programs
  <2> HIDE DEF z
  <2>3. p.i * p.i + 0 = p.i * p.i
    BY <1>1
  <2>4. Computes(z)
    BY <1>1, <1>3, <2>2, <2>3 DEF Computes
  <2> QED
    BY <2>4 DEF z
<1> QED
  BY <1>2, <1>3

LEMMA MultiplyComputes ==
  ASSUME NEW p \in Programs, p.pc = "multiply", Computes(p) PROVE Computes(Multiply(p))
<1> DEFINE sum == Sum(IntMod, p.mulx, p.muly, p.ans)
           h == Half(p.mulx)
           d == Double(IntMod, p.muly)
           y == Assign(p.x, p.i, sum)
           z == Multiply(p)
<1>1. /\ p.i \in Nat /\ p.i < Elements /\ Elements \in Nat /\ \A j \in 0 .. (p.i - 1) : Squared(p.x, j)
      /\ p.mulx \in Nat /\ p.muly \in Nat /\ p.ans \in 0 .. (IntMod - 1) /\ p.x \in Words
      /\ (p.mulx * p.muly + p.ans) % IntMod = (p.i * p.i) % IntMod
  BY ProgramAssumption DEF Computes, Programs
<1>2. /\ sum \in 0 .. (IntMod - 1)
      /\ (h * d + sum) % IntMod = (p.i * p.i) % IntMod
      /\ h = 0 => sum = (p.i * p.i) % IntMod
  <2>1. p.mulx \in Nat /\ p.muly \in Nat /\ p.ans \in 0 .. (IntMod - 1) /\ IntMod \in Nat \ {0}
    BY <1>1, IntType
  <2>2. /\ sum \in 0 .. (IntMod - 1)
        /\ (h * d + sum) % IntMod = (p.mulx * p.muly + p.ans) % IntMod
        /\ h = 0 => sum = (p.mulx * p.muly + p.ans) % IntMod
    BY <2>1, Round
  <2> HIDE DEF h, d, sum
  <2> QED
    BY <1>1, <2>2
<1>3. IF h = 0 THEN z = [p EXCEPT !.pc = "square", !.i = p.i + 1, !.x = y]
      ELSE z = [p EXCEPT !.mulx = h, !.muly = d, !.ans = sum]
  BY DEF Multiply, Programs, Sum, Half, Double
<1>4. CASE h = 0
  <2>1. \A j \in 0 .. p.i : Squared(y, j)
    <3>1. sum \in Nat /\ p.i \in 0 .. (Elements - 1) /\ sum = (p.i * p.i) % IntMod
      BY <1>1, <1>2, <1>4, IntType
    <3> HIDE DEF sum
    <3> QED
      BY <1>1, <3>1, Assigned
  <2> HIDE DEF y, h
  <2>2. z.pc = "square" /\ z.i = p.i + 1 /\ z.x = y
    BY <1>3, <1>4 DEF Programs
  <2> HIDE DEF z
  <2>3. Computes(z)
    BY <1>1, <2>1, <2>2 DEF Computes
  <2> QED
    BY <2>3 DEF z
<1>5. CASE h # 0
  <2> HIDE DEF h, d, sum
  <2>1. z.pc = "multiply" /\ z.i = p.i /\ z.x = p.x /\ z.mulx = h /\ z.muly = d /\ z.ans = sum
    BY <1>3, <1>5 DEF Programs
  <2> HIDE DEF z
  <2>2. Computes(z)
    BY <1>1, <1>2, <2>1 DEF Computes
  <2> QED
    BY <2>2 DEF z
<1> QED
  BY <1>4, <1>5

LEMMA CopyComputes ==
  ASSUME NEW p \in Programs, p.pc = "copy", Computes(p) PROVE Computes(Copy(p))
<1> DEFINE size == Elements * Width
           z == Copy(p)
<1>1. /\ p.i \in Nat /\ p.i <= size /\ size \in Nat /\ p.x \in Words /\ p.array \in Words
      /\ \A j \in 0 .. (Elements - 1) : Squared(p.x, j)
      /\ \A b \in 1 .. p.i : p.array[b] = p.x[b]
  BY ProgramAssumption DEF Computes, Programs
<1>2. CASE p.i = size
  <2>1. z.pc = "print" /\ z.array = p.array
    BY <1>2 DEF Copy, Programs
  <2> HIDE DEF z
  <2>2. ASSUME NEW j \in 0 .. (Elements - 1) PROVE Squared(p.array, j)
    <3>1. ASSUME NEW b \in 1 .. Width
          PROVE  p.array[j * Width + b] = p.x[j * Width + b]
      BY <1>1, <1>2, ElementBytes
    <3> QED
      BY <1>1, <3>1 DEF Squared
  <2>3. Computes(z)
    BY <2>1, <2>2 DEF Computes
  <2> QED
    BY <2>3 DEF z
<1>3. CASE p.i # size
  <2> DEFINE y == [p.array EXCEPT ![p.i + 1] = p.x[p.i + 1]]
  <2>1. z = [p EXCEPT !.i = p.i + 1, !.array = y]
    BY <1>3 DEF Copy, Programs
  <2>2. \A b \in 1 .. (p.i + 1) : y[b] = p.x[b]
    BY <1>1, <1>3 DEF Words
  <2> HIDE DEF y
  <2>3. z.pc = "copy" /\ z.i = p.i + 1 /\ z.x = p.x /\ z.array = y
    BY <2>1 DEF Programs
  <2> HIDE DEF z, size
  <2>4. Computes(z)
    BY <1>1, <1>3, <2>2, <2>3 DEF Computes, size
  <2> QED
    BY <2>4 DEF z
<1> QED
  BY <1>2, <1>3

LEMMA PutComputes ==
  ASSUME NEW p \in Programs, p.pc = "print", Computes(p) PROVE Computes(PutChar(p))
<1>1. PutChar(p).pc = "print" /\ PutChar(p).array = p.array
  BY DEF PutChar, Programs
<1> HIDE DEF PutChar
<1> QED
  BY <1>1 DEF Computes

-----------------------------------------------------------------------------
(***************************************************************************)
(* The screen.  The cursor is where the next character of the text belongs *)
(* and so what is stored becomes the last character of its cell, and the   *)
(* last of no other.                                                       *)
(***************************************************************************)
CursorFollows ==
  /\ posX = Column(written, Len(written) + 1)
  /\ posY = Line(written, Len(written) + 1) % Lines

\* The cursor goes as the text does.
LEMMA CursorMoves ==
  ASSUME TypeOK, CursorFollows, NEW c \in Chars, Store(c), written' = Append(written, c)
  PROVE  /\ CursorFollows'
         /\ posX' \in 0 .. (Columns - 1) /\ posY' \in 0 .. (Lines - 1)
<1> DEFINE n == Len(written) + 1
           t == Append(written, c)
           newline == posX = Columns - 1 \/ c = "LF"
<1>1. written \in Seq(Chars) /\ n \in Nat \ {0} /\ n \in 1 .. (Len(written) + 1)
  BY LenProperties DEF TypeOK
<1>2. t[n] = c /\ Len(t) = n /\ t \in Seq(Chars)
  BY <1>1, AppendProperties
<1>3. Column(t, n) = posX /\ Line(t, n) = Line(written, n)
  BY <1>1, PlaceKept DEF CursorFollows
<1> HIDE DEF t, n
<1>4. EndsLine(t, n) <=> newline
  BY <1>2, <1>3 DEF EndsLine
<1>5. /\ Column(t, n + 1) = IF newline THEN 0 ELSE posX + 1
      /\ Line(t, n + 1) = IF newline THEN Line(written, n) + 1 ELSE Line(written, n)
  BY <1>1, <1>3, <1>4, NextPlace
<1>6. Line(written, n) \in Nat /\ Lines \in Nat \ {0} /\ posY = Line(written, n) % Lines
  BY <1>1, PlaceType, DisplayAssumption DEF CursorFollows, n
<1>7. (Line(written, n) + 1) % Lines = IF posY = Lines - 1 THEN 0 ELSE posY + 1
  BY <1>6, Successor
<1>8. posX' = Column(t, n + 1) /\ posY' = Line(t, n + 1) % Lines
  BY <1>5, <1>6, <1>7 DEF Store
<1>9. n + 1 \in Nat \ {0} /\ written' = t /\ Len(written') + 1 = n + 1
  BY <1>1, <1>2 DEF t
<1>10. Column(t, n + 1) \in 0 .. (Columns - 1) /\ Line(t, n + 1) % Lines \in 0 .. (Lines - 1)
  BY <1>9, PlaceType
<1>11. CursorFollows'
  BY <1>8, <1>9 DEF CursorFollows
<1> QED
  BY <1>8, <1>10, <1>11

LEMMA StoreShows ==
  ASSUME TypeOK, CursorFollows, ScreenShowsText, UNCHANGED <<before, lost, cut>>,
         NEW c \in Chars, Store(c), written' = Append(written, c)
  PROVE  vram' \in [Cells -> Shown] /\ ScreenShowsText'
<1> DEFINE n == Len(written) + 1
           t == Append(written, c)
           In(i, a) == Line(t, i) % Lines = a \div Columns /\ Column(t, i) = a % Columns
<1>1. written \in Seq(Chars) /\ Len(written) \in Nat /\ n \in Nat \ {0} /\ n \in 1 .. (Len(written) + 1)
  BY LenProperties DEF TypeOK
<1>2. /\ t[n] = c /\ DOMAIN t = 1 .. n /\ DOMAIN written = 1 .. (n - 1)
      /\ \A i \in 1 .. (n - 1) : t[i] = written[i]
  BY <1>1, AppendProperties, LenProperties
<1>3. WAddr \in Cells /\ vram \in [Cells -> Shown] /\ WData(c) \in Shown
  BY CellOf DEF TypeOK, WAddr, WData, Shown
<1>4. vram' = [vram EXCEPT ![WAddr] = WData(c)]
  BY DEF Store, Write
<1>5. \A a \in Cells : In(n, a) <=> a = WAddr
  <2>1. Line(t, n) % Lines = posY /\ Column(t, n) = posX
    BY <1>1, PlaceKept DEF CursorFollows
  <2>2. posY \in 0 .. (Lines - 1) /\ posX \in 0 .. (Columns - 1)
    BY DEF TypeOK
  <2>3. \A a \in Cells : (a \div Columns = posY /\ a % Columns = posX) <=> a = WAddr
    BY <2>2, CellOf DEF WAddr
  <2> QED
    BY <2>1, <2>3
<1>6. \A i \in 1 .. (n - 1), a \in Cells : In(i, a) <=> InCell(i, a)
  <2> SUFFICES ASSUME NEW i \in 1 .. (n - 1), NEW a \in Cells PROVE In(i, a) <=> InCell(i, a)
    OBVIOUS
  <2>1. Column(t, i) = Column(written, i) /\ Line(t, i) = Line(written, i)
    BY <1>1, PlaceKept
  <2> QED
    BY <2>1 DEF InCell
<1>7. \A i, a : InCell(i, a)' <=> In(i, a)
  BY DEF InCell
<1> HIDE DEF n, t, In
<1>8. vram' \in [Cells -> Shown]
  BY <1>3, <1>4
<1>9. ASSUME NEW a \in Cells
      PROVE  \/ (\A i \in 1 .. n : ~In(i, a)) /\ LeftAlone(a)'
             \/ \E i \in 1 .. n :
                  /\ In(i, a) /\ \A k \in 1 .. n : In(k, a) => k <= i
                  /\ vram'[a] = IF t[i] \in DOMAIN Font THEN t[i] ELSE Blank
  <2>1. CASE a = WAddr
    <3>1. In(n, a) /\ n \in 1 .. n /\ \A k \in 1 .. n : k <= n
      BY <1>1, <1>5, <2>1
    <3>2. vram'[a] = IF t[n] \in DOMAIN Font THEN t[n] ELSE Blank
      BY <1>2, <1>3, <1>4, <2>1 DEF WData
    <3> QED
      BY <3>1, <3>2
  <2>2. CASE a # WAddr
    <3>1. vram'[a] = vram[a] /\ ~In(n, a)
      BY <1>3, <1>4, <1>5, <2>2
    <3>2. \A i \in 1 .. n : i = n \/ i \in 1 .. (n - 1)
      BY <1>1
    <3>3. CASE (\A i \in DOMAIN written : ~InCell(i, a)) /\ LeftAlone(a)
      <4>1. LeftAlone(a)'
        BY <3>1, <3>3 DEF LeftAlone, WData
      <4> QED
        BY <1>2, <1>6, <3>1, <3>2, <3>3, <4>1
    <3>4. CASE \E i \in DOMAIN written :
                 /\ InCell(i, a) /\ \A k \in DOMAIN written : InCell(k, a) => k <= i
                 /\ vram[a] = IF written[i] \in DOMAIN Font THEN written[i] ELSE Blank
      <4>1. PICK i \in 1 .. (n - 1) :
              /\ InCell(i, a) /\ \A k \in 1 .. (n - 1) : InCell(k, a) => k <= i
              /\ vram[a] = IF written[i] \in DOMAIN Font THEN written[i] ELSE Blank
        BY <1>2, <3>4
      <4>2. i \in 1 .. n /\ In(i, a) /\ t[i] = written[i]
        BY <1>1, <1>2, <1>6, <4>1
      <4>3. \A k \in 1 .. n : In(k, a) => k <= i
        BY <1>6, <3>1, <3>2, <4>1
      <4> QED
        BY <3>1, <4>1, <4>2, <4>3
    <3> QED
      BY <3>3, <3>4 DEF ScreenShowsText
  <2> QED
    BY <2>1, <2>2
<1>10. ScreenShowsText'
  <2>1. written' = t /\ DOMAIN t = 1 .. n
    BY <1>2 DEF t
  <2> QED
    BY <1>7, <1>9, <2>1 DEF ScreenShowsText
<1> QED
  BY <1>8, <1>10

\* What a clock under reset leaves in the cells, when every cell is as it was at the press
\* or holds the store that was on its way, and when that store goes to one of its two cells.
LEMMA ResetShows ==
  ASSUME TypeOK, NEW n, NEW chars \in SUBSET Chars, ResetClock(n, chars), WAddr \in {cut', 0},
         \A a \in Cells : \/ vram[a] = before'[a]
                          \/ a \in {cut', 0} /\ \E c \in chars : vram[a] = WData(c)
  PROVE  CursorFollows' /\ ScreenShowsText' /\ vram' \in [Cells -> Shown]
<1>1. posX' = 0 /\ posY' = 0 /\ written' = <<>> /\ lost' = chars
  BY DEF ResetClock, ResetCursor, ResetStore
<1>2. CursorFollows'
  <2>1. Lines \in Nat \ {0} /\ 0 = Lines * 0 + 0 /\ 0 \in 0 .. (Lines - 1)
    BY DisplayAssumption
  <2>2. 0 % Lines = 0
    BY <2>1, Unique
  <2>3. Len(written') + 1 = 1
    BY <1>1
  <2>4. Column(<<>>, 1) = 0 /\ Line(<<>>, 1) = 0
    BY FirstPlace
  <2> QED
    BY <1>1, <2>2, <2>3, <2>4 DEF CursorFollows
<1>3. vram \in [Cells -> Shown] /\ \A c \in chars : WData(c) \in Shown
  BY DEF TypeOK, Shown, WData
<1>4. \/ vram' = vram
      \/ \E c \in chars : vram' = [vram EXCEPT ![WAddr] = WData(c)]
  BY DEF ResetClock, ResetCursor, ResetStore, Write
<1>5. vram' \in [Cells -> Shown]
  BY <1>3, <1>4
<1>6. \A a \in Cells : \/ vram'[a] = before'[a]
                       \/ a \in {cut', 0} /\ \E c \in chars : vram'[a] = WData(c)
  BY <1>3, <1>4
<1>7. \A a \in Cells : LeftAlone(a)'
  BY <1>1, <1>6 DEF LeftAlone, WData
<1>8. DOMAIN written' = {}
  BY <1>1
<1> QED
  BY <1>2, <1>5, <1>7, <1>8 DEF ScreenShowsText

-----------------------------------------------------------------------------
(***************************************************************************)
(* The picture.  Video memory has answered for the cell the scan is now    *)
(* at, with its word of this clock or of the one before.                   *)
(***************************************************************************)
Cell == Columns * (VD \div GlyphH) + HD \div GlyphW

PixelArrives == started /\ En => rData \in {vram[Cell], old[Cell]}

LEMMA ScanKeeps == ASSUME Ticks PROVE PixelArrives'
<1>1. HD' = HDNext /\ VD' = VDNext /\ rData' \in {vram[RAddr], vram'[RAddr]} /\ old' = vram
  BY DEF Ticks, Scan
<1>2. En' => EnNext
  BY <1>1 DEF En, EnNext
<1>3. EnNext => Cell' = RAddr
  BY <1>1 DEF Cell, RAddr
<1> QED
  BY <1>1, <1>2, <1>3 DEF PixelArrives

-----------------------------------------------------------------------------
(***************************************************************************)
(* The whole.                                                              *)
(***************************************************************************)
\* While the button is down, and until the store that was on its way has taken place, no
\* text has begun, and the cursor is in the top left corner.
NotBegun == up \/ flight > 0 => written = <<>> /\ posX = 0 /\ posY = 0

Sound == TypeOK /\ Computes(m) /\ CursorFollows /\ ScreenShowsText /\ PixelArrives /\ NotBegun

LEMMA ProgramType == TypeOK => m \in Programs
BY DEF TypeOK, Programs, Words

LEMMA InitSound == Init => Sound
<1> SUFFICES ASSUME Init PROVE Sound
  OBVIOUS
<1>1. PICK s \in Strings : m = Start(s)
  BY DEF Init
<1>2. m \in Programs /\ Computes(m)
  BY <1>1, StartType, StartComputes
<1>3. TypeOK
  <2>1. /\ VisibleH + BlankH < ScanMod /\ VisibleV + BlankV < ScanMod
        /\ Columns \in Nat \ {0} /\ Lines \in Nat \ {0} /\ GlyphW \in Nat \ {0} /\ GlyphH \in Nat \ {0}
        /\ BlankH \in Nat /\ BlankV \in Nat /\ ScanMod \in Nat /\ CountMod \in Nat /\ Clk \in Nat /\ Clk < CountMod
    BY DisplayAssumption
  <2>2. VisibleH \in Nat /\ VisibleV \in Nat
    BY <2>1 DEF VisibleH, VisibleV
  <2>3. /\ posX = 0 /\ posY = 0 /\ vram = [a \in Cells |-> Blank] /\ before = vram /\ old = vram
        /\ HD \in {0, LastH + 1} /\ VD \in {0, LastV + 1} /\ rData \in {Blank} \union DOMAIN Font
        /\ count \in {0, CountMod - 1} /\ pos = 0 /\ written = <<>> /\ resets = 0 /\ started = FALSE
        /\ up = FALSE /\ flight = 0 /\ lost = {} /\ cut = 0
    BY DEF Init, DisplayInit
  <2>4. HD \in 0 .. (ScanMod - 1) /\ VD \in 0 .. (ScanMod - 1)
    BY <2>1, <2>2, <2>3 DEF LastH, LastV
  <2>5. written \in Seq(Chars) /\ MaxResets \in Nat
    BY <2>3, TextAssumption
  <2>6. count \in 0 .. (CountMod - 1) /\ posX \in 0 .. (Columns - 1) /\ posY \in 0 .. (Lines - 1)
    BY <2>1, <2>3
  <2>7. vram \in [Cells -> DOMAIN Font \union {Blank}] /\ before = vram /\ old = vram
    BY <2>3
  <2>8. rData \in DOMAIN Font \union {Blank} /\ resets \in 0 .. MaxResets /\ pos \in 0..7 /\ started \in BOOLEAN
    <3>1. 0 \in 0 .. MaxResets /\ 0 \in 0..7
      BY <2>5
    <3> QED
      BY <2>3, <3>1
  <2>9. posY \in 0 .. (Lines - 1) /\ written \in Seq(Chars)
    BY <2>5, <2>6
  <2>10. up \in BOOLEAN /\ flight \in 0..3 /\ lost \in SUBSET Chars /\ cut \in Cells
    <3>1. 0 \in 0 .. (Lines - 1) /\ 0 \in 0 .. (Columns - 1) /\ 0 * Columns + 0 = 0
      BY <2>1
    <3>2. 0 \in Cells
      BY <3>1, CellOf
    <3> QED
      BY <2>3, <3>2
  <2> QED
    BY <1>2, <2>4, <2>6, <2>7, <2>8, <2>9, <2>10 DEF TypeOK, Programs, Words
<1>4. CursorFollows /\ ScreenShowsText
  <2>1. posX = 0 /\ posY = 0 /\ written = <<>> /\ before = vram
    BY DEF Init, DisplayInit
  <2>2. Lines \in Nat \ {0} /\ 0 = Lines * 0 + 0 /\ 0 \in 0 .. (Lines - 1)
    BY DisplayAssumption
  <2>3. 0 % Lines = 0
    BY <2>2, Unique
  <2>4. Len(written) + 1 = 1 /\ DOMAIN written = {}
    BY <2>1
  <2>5. Column(written, 1) = 0 /\ Line(written, 1) = 0
    BY FirstPlace
  <2> QED
    BY <2>1, <2>3, <2>4, <2>5 DEF CursorFollows, ScreenShowsText, LeftAlone
<1>5. PixelArrives /\ NotBegun
  BY DEF Init, PixelArrives, NotBegun
<1> QED
  BY <1>2, <1>3, <1>4, <1>5 DEF Sound

\* The program goes a step on, and the displays stand.
LEMMA ComputeSound == Sound /\ Compute => Sound'
<1> SUFFICES ASSUME Sound, Compute PROVE Sound'
  OBVIOUS
<1>1. m \in Programs /\ Computes(m)
  BY ProgramType DEF Sound
<1>2. m' \in Programs /\ Computes(m')
  <2>1. CASE m.pc = "square" /\ m' = Square(m)
    BY <1>1, <2>1, SquareType, SquareComputes
  <2>2. CASE m.pc = "multiply" /\ m' = Multiply(m)
    BY <1>1, <2>2, MultiplyType, MultiplyComputes
  <2>3. CASE m.pc = "copy" /\ m' = Copy(m)
    <3>1. m.i <= Elements * Width
      BY <1>1, <2>3 DEF Computes
    <3> QED
      BY <1>1, <2>3, <3>1, CopyType, CopyComputes
  <2> QED
    BY <2>1, <2>2, <2>3 DEF Compute
<1>3. UNCHANGED <<posX, posY, vram, HD, VD, rData, count, pos, up, flight, lost, cut,
                  written, before, old, resets, started>>
  BY DEF Compute, display, text, scan, segments, button, history
<1>4. TypeOK'
  BY <1>2, <1>3 DEF Sound, TypeOK, Programs, Words
<1>5. CursorFollows' /\ ScreenShowsText' /\ PixelArrives' /\ NotBegun'
  BY <1>3 DEF Sound, CursorFollows, ScreenShowsText, LeftAlone, WData, InCell, PixelArrives, Cell, En, NotBegun
<1> QED
  BY <1>2, <1>4, <1>5 DEF Sound

LEMMA ClockSound == Sound /\ Clock => Sound'
<1> SUFFICES ASSUME Sound, Clock PROVE Sound'
  OBVIOUS
<1>1. TypeOK /\ Ticks /\ UNCHANGED <<posX, posY, vram, m, up, flight, lost, cut, written, before, resets>>
  BY DEF Sound, Clock, NoStore, text, button
<1>2. vram' \in [Cells -> Shown]
  BY <1>1 DEF TypeOK, Shown
<1>3. TypeOK'
  BY <1>1, <1>2, TicksType DEF TypeOK, Shown
<1>4. CursorFollows' /\ ScreenShowsText' /\ Computes(m)' /\ NotBegun'
  BY <1>1 DEF Sound, CursorFollows, ScreenShowsText, LeftAlone, WData, InCell, Computes, NotBegun
<1> QED
  BY <1>1, <1>3, <1>4, ScanKeeps DEF Sound

LEMMA PrintSound == Sound /\ PrintChar => Sound'
<1> SUFFICES ASSUME Sound, PrintChar PROVE Sound'
  OBVIOUS
<1> DEFINE c == Next1(m)
<1>1. /\ TypeOK /\ CursorFollows /\ ScreenShowsText /\ m \in Programs /\ Computes(m)
      /\ Prints(m) /\ Store(c) /\ Ticks /\ m' = PutChar(m) /\ written' = Append(written, c)
      /\ ~up /\ flight = 0 /\ UNCHANGED <<up, flight, lost, cut, before, resets>>
  BY ProgramType DEF Sound, PrintChar, button
<1>2. c \in Chars
  <2>1. m.chars \in Seq(Chars) /\ m.i \in Nat /\ m.i < Len(m.chars)
    BY <1>1, TextAssumption DEF Programs, Prints
  <2> QED
    BY <2>1, ElementOfSeq DEF Next1
<1> HIDE DEF c
<1>3. m' \in Programs /\ Computes(m')
  BY <1>1, PutType, PutComputes DEF Prints
<1>4. /\ CursorFollows' /\ posX' \in 0 .. (Columns - 1) /\ posY' \in 0 .. (Lines - 1)
      /\ vram' \in [Cells -> Shown] /\ ScreenShowsText'
  BY <1>1, <1>2, CursorMoves, StoreShows
<1>5. written' \in Seq(Chars)
  BY <1>1, <1>2, AppendProperties DEF TypeOK
<1>6. TypeOK'
  BY <1>1, <1>3, <1>4, <1>5, TicksType DEF TypeOK, Programs, Words, Shown
<1>7. NotBegun'
  BY <1>1 DEF NotBegun
<1> QED
  BY <1>1, <1>3, <1>4, <1>6, <1>7, ScanKeeps DEF Sound

LEMMA ClockOfReset ==
  ASSUME Sound, NEW n \in 0..3, NEW chars \in SUBSET Chars, ResetClock(n, chars), WAddr \in {cut', 0},
         \A a \in Cells : \/ vram[a] = before'[a]
                          \/ a \in {cut', 0} /\ \E c \in chars : vram[a] = WData(c),
         before' \in [Cells -> Shown], cut' \in Cells, resets' \in 0 .. MaxResets
  PROVE  Sound'
<1>1. /\ TypeOK /\ m \in Programs /\ Ticks /\ posX' = 0 /\ posY' = 0 /\ written' = <<>>
      /\ m' = Start(m.chars) /\ up' \in BOOLEAN /\ lost' = chars
      /\ flight' = IF n = 0 THEN 0 ELSE n - 1
  BY ProgramType DEF Sound, ResetClock, ResetCursor, ResetStore
<1>2. m' \in Programs /\ Computes(m')
  BY <1>1, StartType, StartComputes DEF Programs
<1>3. CursorFollows' /\ ScreenShowsText' /\ vram' \in [Cells -> Shown]
  BY <1>1, ResetShows
<1>4. flight' \in 0..3
  BY <1>1
<1>5. posX' \in 0 .. (Columns - 1) /\ posY' \in 0 .. (Lines - 1) /\ written' \in Seq(Chars)
  BY <1>1, DisplayAssumption
<1>6. TypeOK'
  BY <1>1, <1>2, <1>3, <1>4, <1>5, TicksType DEF TypeOK, Programs, Words, Shown
<1>7. NotBegun'
  BY <1>1 DEF NotBegun
<1> QED
  BY <1>1, <1>2, <1>3, <1>6, <1>7, ScanKeeps DEF Sound

LEMMA PressSound == Sound /\ Press => Sound'
<1> SUFFICES ASSUME Sound, Press PROVE Sound'
  OBVIOUS
<1>1. TypeOK /\ m \in Programs /\ before' = vram /\ cut' = WAddr /\ resets < MaxResets /\ resets' = resets + 1
  BY ProgramType DEF Sound, Press
<1>2. vram \in [Cells -> Shown] /\ WAddr \in Cells /\ resets' \in 0 .. MaxResets
  BY <1>1, CellOf, TextAssumption DEF TypeOK, Shown, WAddr
<1>3. CASE ResetClock(0, {})
  BY <1>1, <1>2, <1>3, ClockOfReset
<1>4. CASE Prints(m) /\ \E n \in 1..3 : ResetClock(n, {Next1(m)})
  <2>1. Next1(m) \in Chars
    <3>1. m.chars \in Seq(Chars) /\ m.i \in Nat /\ m.i < Len(m.chars)
      BY <1>1, <1>4, TextAssumption DEF Programs, Prints
    <3> QED
      BY <3>1, ElementOfSeq DEF Next1
  <2>2. PICK n \in 1..3 : ResetClock(n, {Next1(m)})
    BY <1>4
  <2>3. n \in 0..3 /\ {Next1(m)} \in SUBSET Chars
    BY <2>1
  <2> QED
    BY <1>1, <1>2, <2>2, <2>3, ClockOfReset
<1> QED
  BY <1>3, <1>4 DEF Press

LEMMA HoldSound == Sound /\ Hold => Sound'
<1> SUFFICES ASSUME Sound, Hold PROVE Sound'
  OBVIOUS
<1>1. /\ TypeOK /\ ScreenShowsText /\ (up \/ flight > 0)
      /\ ResetClock(flight, lost) /\ UNCHANGED <<before, cut, resets>>
  BY DEF Sound, Hold
<1>2. written = <<>> /\ posX = 0 /\ posY = 0
  BY <1>1 DEF Sound, NotBegun
<1>3. WAddr = 0
  BY <1>2, DisplayAssumption DEF WAddr
<1>4. DOMAIN written = {}
  BY <1>2
<1>5. \A a \in Cells : LeftAlone(a)
  BY <1>1, <1>4 DEF ScreenShowsText
<1>6. \A a \in Cells : \/ vram[a] = before'[a]
                       \/ a \in {cut', 0} /\ \E c \in lost : vram[a] = WData(c)
  BY <1>1, <1>5 DEF LeftAlone
<1>7. /\ flight \in 0..3 /\ lost \in SUBSET Chars /\ before' \in [Cells -> Shown] /\ cut' \in Cells
      /\ resets' \in 0 .. MaxResets
  BY <1>1 DEF TypeOK, Shown
<1> QED
  BY <1>1, <1>3, <1>6, <1>7, ClockOfReset

LEMMA LateSound == Sound /\ Late => Sound'
<1> SUFFICES ASSUME Sound, Late PROVE Sound'
  OBVIOUS
<1>1. /\ TypeOK /\ CursorFollows /\ ScreenShowsText /\ m \in Programs /\ Computes(m) /\ NotBegun
      /\ ~up /\ flight > 0 /\ flight' = flight - 1 /\ Ticks
      /\ UNCHANGED <<m, up, lost, cut, before, resets>>
  BY ProgramType DEF Sound, Late
<1>2. flight' \in 0..3 /\ Computes(m')
  BY <1>1 DEF TypeOK
<1>3. CASE flight # 1 /\ NoStore /\ UNCHANGED written
  <2>1. UNCHANGED <<posX, posY, vram, written>>
    BY <1>3 DEF NoStore, text
  <2>2. vram' \in [Cells -> Shown]
    BY <1>1, <2>1 DEF TypeOK, Shown
  <2>3. TypeOK'
    BY <1>1, <1>2, <2>1, <2>2, TicksType DEF TypeOK, Shown
  <2>4. CursorFollows' /\ ScreenShowsText' /\ NotBegun'
    BY <1>1, <2>1 DEF CursorFollows, ScreenShowsText, LeftAlone, WData, InCell, NotBegun
  <2> QED
    BY <1>1, <1>2, <2>3, <2>4, ScanKeeps DEF Sound
<1>4. CASE flight = 1 /\ \E c \in lost : Store(c) /\ written' = Append(written, c)
  <2>1. PICK c \in Chars : Store(c) /\ written' = Append(written, c)
    BY <1>1, <1>4 DEF TypeOK
  <2>2. /\ CursorFollows' /\ posX' \in 0 .. (Columns - 1) /\ posY' \in 0 .. (Lines - 1)
        /\ vram' \in [Cells -> Shown] /\ ScreenShowsText'
    BY <1>1, <2>1, CursorMoves, StoreShows
  <2>3. written' \in Seq(Chars)
    BY <1>1, <2>1, AppendProperties DEF TypeOK
  <2>4. TypeOK'
    BY <1>1, <1>2, <2>2, <2>3, TicksType DEF TypeOK, Shown
  <2>5. NotBegun'
    BY <1>1, <1>4 DEF NotBegun
  <2> QED
    BY <1>1, <1>2, <2>2, <2>4, <2>5, ScanKeeps DEF Sound
<1> QED
  BY <1>3, <1>4 DEF Late

LEMMA NextSound == Sound /\ [Next]_vars => Sound'
<1> SUFFICES ASSUME Sound, [Next]_vars PROVE Sound'
  OBVIOUS
<1>1. CASE Compute
  BY <1>1, ComputeSound
<1>2. CASE Clock
  BY <1>2, ClockSound
<1>3. CASE PrintChar
  BY <1>3, PrintSound
<1>4. CASE Press
  BY <1>4, PressSound
<1>5. CASE Hold
  BY <1>5, HoldSound
<1>6. CASE Late
  BY <1>6, LateSound
<1>7. CASE UNCHANGED vars
  <2>1. UNCHANGED <<m, up, flight, lost, cut, written, before, old, resets, started,
                    posX, posY, vram, HD, VD, rData, count, pos>>
    BY <1>7 DEF vars, display, text, scan, segments, button, history
  <2>2. TypeOK' /\ Computes(m)'
    BY <2>1 DEF Sound, TypeOK, Computes
  <2>3. CursorFollows' /\ ScreenShowsText' /\ PixelArrives' /\ NotBegun'
    BY <2>1 DEF Sound, CursorFollows, ScreenShowsText, LeftAlone, WData, InCell, PixelArrives, Cell, En, NotBegun
  <2> QED
    BY <2>2, <2>3 DEF Sound
<1> QED
  BY <1>1, <1>2, <1>3, <1>4, <1>5, <1>6, <1>7 DEF Next

THEOREM SoundAlways == Spec => []Sound
BY InitSound, NextSound, PTL DEF Spec

\* The cursor never leaves the screen (DataManager.scala), and everything else keeps its type.
THEOREM TerminalTypes == Spec => []TypeOK
<1>1. Sound => TypeOK
  BY DEF Sound
<1> QED
  BY <1>1, SoundAlways, PTL

\* Whatever is printed, and whenever and for however long the board is reset, the screen
\* holds the text stored since then, line by line, and is otherwise as it was, but for one
\* store that the reset does not hold back (DataManager.scala, VGA.scala).
THEOREM ScreenCorrect == Spec => []ScreenShowsText
<1>1. Sound => ScreenShowsText
  BY DEF Sound
<1> QED
  BY <1>1, SoundAlways, PTL

\* The scan asks a clock ahead, so the picture is never off by a pixel or a cell
\* (Scanner.scala, Display.scala).
THEOREM PictureCorrect == Spec => []PictureIsCurrent
<1>1. Sound => PictureIsCurrent
  BY DEF Sound, PixelArrives, Cell, PictureIsCurrent, OutputPixel
<1> QED
  BY <1>1, SoundAlways, PTL

\* The scan never asks video memory for an address it does not have (Display.scala).
THEOREM ScanInside == Spec => [](RAddr \in Cells)
<1>1. Sound => RAddr \in Cells
  BY AsksInside DEF Sound
<1> QED
  BY <1>1, SoundAlways, PTL

\* The multiplication by shifting and adding and the copy byte by byte leave the squares in
\* the array, whatever the width of an int and the number of elements (helper.c, std.c, prog.c).
THEOREM SquaresCorrect == Spec => []SquaresAreCopied
<1>1. Sound => SquaresAreCopied
  BY DEF Sound, Computes, Squared, SquaresAreCopied
<1> QED
  BY <1>1, SoundAlways, PTL

=============================================================================
