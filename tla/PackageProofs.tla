---------------------------- MODULE PackageProofs ----------------------------
(***************************************************************************)
(* Proofs about the package: the byte logic of its memories, its types,    *)
(* and the timing between the debugger and the core, for every encoding,   *)
(* memory size, program and host.                                          *)
(***************************************************************************)
EXTENDS Package, CoreProofs

-----------------------------------------------------------------------------
(***************************************************************************)
(* The memories' byte logic.                                               *)
(***************************************************************************)
\* A digit put below a number.
LEMMA Digit ==
  ASSUME NEW B \in Nat \ {0}, NEW m \in Nat \ {0},
         NEW c \in 0 .. (B - 1), NEW x \in 0 .. (m - 1)
  PROVE  /\ c + B * x \in 0 .. (B * m - 1)
         /\ B * m \in Nat \ {0}
<1>1. x + 1 <= m /\ x \in Nat /\ B \in Nat /\ c \in Nat
  OBVIOUS
<1>2. B * (x + 1) <= B * m
  BY <1>1
<1>3. B * (x + 1) = B * x + B
  BY <1>1
<1>4. B * x >= 0 /\ B * m > 0
  BY <1>1
<1> QED
  BY <1>1, <1>2, <1>3, <1>4

\* Four bytes make a word, two make a number below ByteMod squared.
LEMMA ToWordType ==
  ASSUME NEW c \in Cell PROVE ToWord(c) \in Word
<1>1. /\ c[0] \in 0 .. (ByteMod - 1) /\ c[1] \in 0 .. (ByteMod - 1)
      /\ c[2] \in 0 .. (ByteMod - 1) /\ c[3] \in 0 .. (ByteMod - 1)
  BY DEF Cell, Byte
<1> DEFINE x2 == c[2] + ByteMod * c[3]
           x1 == c[1] + ByteMod * x2
<1>2. /\ x2 \in 0 .. (ByteMod * ByteMod - 1)
      /\ ByteMod * ByteMod \in Nat \ {0}
  BY <1>1, Digit, MemoryAssumption
<1>3. /\ x1 \in 0 .. (ByteMod * (ByteMod * ByteMod) - 1)
      /\ ByteMod * (ByteMod * ByteMod) \in Nat \ {0}
  <2> HIDE DEF x2
  <2> QED
    BY <1>1, <1>2, Digit, MemoryAssumption
<1>4. c[0] + ByteMod * x1 \in
        0 .. (ByteMod * (ByteMod * (ByteMod * ByteMod)) - 1)
  <2> HIDE DEF x1
  <2> QED
    BY <1>1, <1>3, Digit, MemoryAssumption
<1>5. ByteMod * (ByteMod * (ByteMod * ByteMod)) = WordMod
  BY MemoryAssumption
<1> QED
  BY <1>4, <1>5 DEF ToWord, Word

\* A word is cut into bytes.
LEMMA ToCellType ==
  ASSUME NEW w \in Word PROVE ToCell(w) \in Cell
<1>1. ASSUME NEW k \in 0 .. 3 PROVE (w \div Place(k)) % ByteMod \in Byte
  <2>1. w \in Nat /\ ByteMod \in Nat \ {0}
    BY WordAssumption, MemoryAssumption DEF Word
  <2>2. /\ ByteMod * ByteMod \in Nat \ {0}
        /\ ByteMod * ByteMod * ByteMod \in Nat \ {0}
    BY <2>1
  <2>3. Place(k) \in Nat \ {0}
    BY <2>1, <2>2 DEF Place
  <2>4. w \div Place(k) \in Int
    BY <2>1, <2>3
  <2> QED
    BY <2>1, <2>4 DEF Byte
<1> QED
  BY <1>1 DEF ToCell, Cell

\* Every address selects a cell, and a byte of it.
LEMMA IndexType ==
  ASSUME NEW addr \in Word
  PROVE  /\ IIndex(addr) \in 0 .. (IMemWords - 1)
         /\ DIndex(addr) \in 0 .. (DMemWords - 1)
         /\ Subword(addr) \in 0 .. 3
<1>1. addr \in Int /\ DMemBase \in Int
  BY WordAssumption, MemoryAssumption DEF Word
<1>2. Sub(addr, DMemBase) \in Int
  BY <1>1, WordAssumption DEF Sub
<1>3. addr \div 4 \in Int /\ Sub(addr, DMemBase) \div 4 \in Int
  BY <1>1, <1>2
<1> QED
  BY <1>2, <1>3, MemoryAssumption DEF IIndex, DIndex, Subword

\* Stores keep the memory a memory, and loads return words.
LEMMA DMemWriteType ==
  ASSUME NEW mem \in DMem, NEW addr \in Word, NEW length, NEW w \in Word
  PROVE  DMemWrite(mem, addr, length, w) \in DMem
<1>1. ToCell(w) \in Cell
  BY ToCellType
<1>2. Lanes(length, w) \in Cell
  <2>1. \A k \in 0 .. 3 : k % 2 \in 0 .. 3
    OBVIOUS
  <2> QED
    BY <1>1, <2>1 DEF Lanes, Cell
<1>3. DIndex(addr) \in 0 .. (DMemWords - 1)
  BY IndexType
<1>4. mem[DIndex(addr)] \in Cell
  BY <1>3 DEF DMem
<1>5. [k \in 0 .. 3 |-> IF k \in WriteMask(length, Subword(addr))
                       THEN Lanes(length, w)[k]
                       ELSE mem[DIndex(addr)][k]] \in Cell
  BY <1>2, <1>4 DEF Cell
<1> QED
  BY <1>5 DEF DMemWrite, DMem

LEMMA ExtendType ==
  ASSUME NEW sign, NEW mod \in Nat \ {0}, mod <= WordMod,
         NEW n \in 0 .. (mod - 1)
  PROVE  Extend(sign, n, mod) \in Word
BY WordAssumption DEF Extend, Unsigned, Word

LEMMA DMemReadType ==
  ASSUME NEW mem \in DMem, NEW addr \in Word, NEW length, NEW sign
  PROVE  DMemRead(mem, addr, length, sign) \in Word
<1> DEFINE c == mem[DIndex(addr)]
           s == Subword(addr)
<1>1. c \in Cell /\ s \in 0 .. 3 /\ (s + 1) % 4 \in 0 .. 3
  BY IndexType DEF DMem
<1>2. c[s] \in 0 .. (ByteMod - 1) /\ c[(s + 1) % 4] \in 0 .. (ByteMod - 1)
  BY <1>1 DEF Cell, Byte
<1>3. ByteMod \in Nat \ {0} /\ ByteMod * ByteMod \in Nat \ {0}
  BY MemoryAssumption
<1>4. ByteMod <= WordMod /\ ByteMod * ByteMod <= WordMod
  <2>1. WordMod = (ByteMod * ByteMod) * (ByteMod * ByteMod)
    BY MemoryAssumption
  <2>2. \A m, n \in Nat \ {0} : m <= m * n
    OBVIOUS
  <2> QED
    BY <1>3, <2>1, <2>2
<1>5. c[s] + ByteMod * c[(s + 1) % 4] \in 0 .. (ByteMod * ByteMod - 1)
  BY <1>2, <1>3, Digit
<1> HIDE DEF c, s
<1>6. /\ Extend(sign, c[s], ByteMod) \in Word
      /\ Extend(sign, c[s] + ByteMod * c[(s + 1) % 4], ByteMod * ByteMod)
           \in Word
  BY <1>2, <1>3, <1>4, <1>5, ExtendType
<1>7. ToWord(c) \in Word
  BY <1>1, ToWordType
<1> QED
  BY <1>6, <1>7 DEF DMemRead, c, s

-----------------------------------------------------------------------------
(***************************************************************************)
(* What is stored can be loaded.                                           *)
(***************************************************************************)
LEMMA Euclid ==
  ASSUME NEW N \in Nat \ {0}, NEW x \in Int
  PROVE  /\ x \div N \in Int /\ x % N \in 0 .. (N - 1)
         /\ x = (N * (x \div N)) + (x % N)
OBVIOUS

LEMMA ModUnique ==
  ASSUME NEW N \in Nat \ {0}, NEW x \in Int, NEW q \in Int, NEW r \in 0 .. (N - 1), x = N * q + r
  PROVE  x % N = r /\ x \div N = q
<1> DEFINE e == x \div N
           s == x % N
           d == q - e
<1>1. e \in Int /\ s \in 0 .. (N - 1) /\ x = N * e + s
  BY Euclid
<1> HIDE DEF e, s
<1>2. N * d = N * q - N * e /\ d \in Int
  BY <1>1
<1>3. N * d < N /\ N * d > -N
  BY <1>1, <1>2
<1>4. \A k \in Int : k >= 1 => N * k >= N
  OBVIOUS
<1>5. \A k \in Int : k <= -1 => N * k <= -N
  OBVIOUS
<1> HIDE DEF d
<1>6. d = 0
  BY <1>2, <1>3, <1>4, <1>5
<1>7. q = e
  BY <1>1, <1>6 DEF d
<1> QED
  BY <1>1, <1>7 DEF e, s

LEMMA DivDiv ==
  ASSUME NEW a \in Nat \ {0}, NEW b \in Nat \ {0}, NEW x \in Int
  PROVE  /\ a * b \in Nat \ {0}
         /\ x \div (a * b) = (x \div a) \div b
         /\ x % (a * b) = (x % a) + a * ((x \div a) % b)
<1> DEFINE q == x \div a
           r == x % a
           p == q \div b
           s == q % b
<1>1. q \in Int /\ r \in 0 .. (a - 1) /\ x = (a * q) + r
  BY Euclid
<1> HIDE DEF q, r
<1>2. p \in Int /\ s \in 0 .. (b - 1) /\ q = (b * p) + s
  BY <1>1, Euclid
<1> HIDE DEF p, s
<1> DEFINE c == a * b
           t == r + a * s
<1>3. c \in Nat \ {0} /\ t \in 0 .. (c - 1)
  BY <1>1, <1>2, Digit
<1>4. x = c * p + t
  <2>1. a * ((b * p) + s) = (a * b) * p + a * s
    BY <1>2
  <2> QED
    BY <1>1, <1>2, <2>1
<1> HIDE DEF c, t
<1>5. x % c = t /\ x \div c = p
  BY <1>2, <1>3, <1>4, ModUnique
<1> QED
  BY <1>3, <1>5 DEF c, t, p, q, r, s

\* The four bytes of a word make it up again, and the lower two its lower half.
LEMMA WordOfCell ==
  ASSUME NEW w \in Word
  PROVE  /\ ToWord(ToCell(w)) = w
         /\ ToCell(w)[0] = w % ByteMod
         /\ ToCell(w)[0] + ByteMod * ToCell(w)[1] = w % (ByteMod * ByteMod)
         /\ ToCell(w)[0] \in Byte /\ ToCell(w)[1] \in Byte
<1> DEFINE B == ByteMod
           q1 == w \div B
           q2 == q1 \div B
           q3 == q2 \div B
           c == ToCell(w)
<1>1. B \in Nat \ {0} /\ w \in Nat /\ w < B * B * B * B
  BY WordAssumption, MemoryAssumption DEF Word
<1> HIDE DEF B
<1>2. /\ q1 \in Int /\ w % B \in 0 .. (B - 1) /\ w = (B * q1) + (w % B)
  BY <1>1, Euclid
<1>3. /\ q2 \in Int /\ q1 % B \in 0 .. (B - 1) /\ q1 = (B * q2) + (q1 % B)
  <2> HIDE DEF q1
  <2> QED
    BY <1>1, <1>2, Euclid
<1>4. /\ q3 \in Int /\ q2 % B \in 0 .. (B - 1) /\ q2 = (B * q3) + (q2 % B)
  <2> HIDE DEF q2
  <2> QED
    BY <1>1, <1>3, Euclid
<1>5. w \div (B * B) = q2 /\ w % (B * B) = (w % B) + B * (q1 % B) /\ B * B \in Nat \ {0}
  <2>1. w \in Int /\ B \in Nat \ {0}
    BY <1>1
  <2>2. /\ B * B \in Nat \ {0} /\ w \div (B * B) = (w \div B) \div B
        /\ w % (B * B) = (w % B) + B * ((w \div B) % B)
    BY <2>1, DivDiv
  <2> QED
    BY <2>2
<1>6. w \div (B * B * B) = q3
  <2> DEFINE D == B * B
  <2>1. D \in Nat \ {0} /\ w \in Int /\ w \div D = q2
    BY <1>1, <1>5
  <2> HIDE DEF D, q2
  <2>2. w \div (D * B) = q2 \div B
    BY <1>1, <2>1, DivDiv
  <2> QED
    BY <2>2 DEF D
<1>7. q3 \in 0 .. (B - 1)
  <2> DEFINE D == B * B * B
  <2>1. D \in Nat \ {0} /\ w \div D = q3 /\ w < D * B
    BY <1>1, <1>6
  <2>2. w % D \in 0 .. (D - 1) /\ w = (D * q3) + (w % D)
    <3>1. D \in Nat \ {0} /\ w \in Int
      BY <1>1, <2>1
    <3> HIDE DEF D, q3
    <3> QED
      BY <2>1, <3>1, Euclid
  <2> HIDE DEF D, q3
  <2>3. \A k \in Int : k >= B => D * k >= D * B
    BY <1>1, <2>1
  <2>4. \A k \in Int : k <= -1 => D * k <= -D
    BY <2>1
  <2> QED
    BY <1>1, <1>4, <2>1, <2>2, <2>3, <2>4
<1>8. w \div 1 = w
  BY <1>1
<1>9. c[0] = w % B /\ c[1] = q1 % B /\ c[2] = q2 % B /\ c[3] = q3
  <2>1. Place(0) = 1 /\ Place(1) = B /\ Place(2) = B * B /\ Place(3) = B * B * B
    BY DEF Place, B
  <2>2. /\ c[0] = (w \div Place(0)) % B /\ c[1] = (w \div Place(1)) % B
        /\ c[2] = (w \div Place(2)) % B /\ c[3] = (w \div Place(3)) % B
    BY DEF ToCell, B
  <2>3. q3 % B = q3
    <3> HIDE DEF q3
    <3> QED
      BY <1>1, <1>7
  <2> HIDE DEF q1, q2, q3
  <2> QED
    BY <1>5, <1>6, <1>8, <2>1, <2>2, <2>3 DEF q1
<1> HIDE DEF c, q1, q2, q3
<1>10. ToWord(c) = c[0] + B * (c[1] + B * (c[2] + B * c[3]))
  BY DEF ToWord, B
<1>11. ToWord(c) = w
  <2>1. c[2] + B * c[3] = q2
    BY <1>1, <1>4, <1>9
  <2>2. c[1] + B * (c[2] + B * c[3]) = q1
    <3> DEFINE y == c[2] + B * c[3]
    <3>1. y = q2 /\ c[1] = q1 % B
      BY <1>9, <2>1
    <3> HIDE DEF y
    <3>2. c[1] + B * y = q1
      BY <1>1, <1>3, <3>1
    <3> QED
      BY <3>2 DEF y
  <2>3. c[0] + B * (c[1] + B * (c[2] + B * c[3])) = w
    <3> DEFINE y == c[1] + B * (c[2] + B * c[3])
    <3>1. y = q1 /\ c[0] = w % B
      BY <1>9, <2>2
    <3> HIDE DEF y
    <3>2. c[0] + B * y = w
      BY <1>1, <1>2, <3>1
    <3> QED
      BY <3>2 DEF y
  <2> QED
    BY <1>10, <2>3
<1> QED
  BY <1>2, <1>3, <1>5, <1>9, <1>11 DEF c, B, Byte

(***************************************************************************)
(* A load returns what a store of the same length left at its address      *)
(* (Memory.scala:57-99), whatever the address: a word is stored and loaded *)
(* in full even at an address that is no multiple of four.  A half word    *)
(* comes back as it was from even addresses only: the two bytes offered to *)
(* the lanes change places at odd ones, and the load does not change them  *)
(* back.                                                                   *)
(***************************************************************************)
THEOREM StoredIsLoaded ==
  ASSUME NEW mem \in DMem, NEW addr \in Word, NEW length \in Lengths, NEW sign, NEW w \in Word
  PROVE  DMemRead(DMemWrite(mem, addr, length, w), addr, length, sign) =
           IF length = "B" THEN Extend(sign, w % ByteMod, ByteMod)
           ELSE IF length # "H" THEN w
           ELSE IF Subword(addr) % 2 = 0
                THEN Extend(sign, w % (ByteMod * ByteMod), ByteMod * ByteMod)
                ELSE Extend(sign, ToCell(w)[1] + ByteMod * ToCell(w)[0], ByteMod * ByteMod)
<1> DEFINE j == DIndex(addr)
           s == Subword(addr)
           m == DMemWrite(mem, addr, length, w)
           c == m[j]
<1>1. j \in DOMAIN mem /\ s \in 0 .. 3
  BY IndexType DEF DMem
<1>2. c = [k \in 0 .. 3 |-> IF k \in WriteMask(length, s) THEN Lanes(length, w)[k] ELSE mem[j][k]]
  <2> HIDE DEF j, s
  <2> QED
    BY <1>1 DEF DMemWrite, j, s
<1>3. DMemRead(m, addr, length, sign) =
        CASE length = "B" -> Extend(sign, c[s], ByteMod)
          [] length = "H" -> Extend(sign, c[s] + ByteMod * c[(s + 1) % 4], ByteMod * ByteMod)
          [] OTHER        -> ToWord(c)
  BY DEF DMemRead
<1> HIDE DEF c, j, s, m
<1>4. CASE length = "B"
  <2>1. c[s] = ToCell(w)[0]
    BY <1>1, <1>2, <1>4 DEF WriteMask, Lanes
  <2> QED
    BY <1>3, <1>4, <2>1, WordOfCell DEF m
<1>5. CASE length = "H"
  <2>1. (s + 1) % 4 \in 0 .. 3
    BY <1>1
  <2>2. c[s] = ToCell(w)[s % 2] /\ c[(s + 1) % 4] = ToCell(w)[((s + 1) % 4) % 2]
    BY <1>1, <1>2, <1>5, <2>1 DEF WriteMask, Lanes
  <2>3. CASE s % 2 = 0
    <3>1. ((s + 1) % 4) % 2 = 1
      BY <1>1, <2>3
    <3>2. c[s] + ByteMod * c[(s + 1) % 4] = w % (ByteMod * ByteMod)
      BY <2>2, <2>3, <3>1, WordOfCell
    <3> QED
      BY <1>3, <1>5, <2>3, <3>2 DEF m, s
  <2>4. CASE s % 2 # 0
    <3>1. s % 2 = 1 /\ ((s + 1) % 4) % 2 = 0
      BY <1>1, <2>4
    <3> QED
      BY <1>3, <1>5, <2>2, <2>4, <3>1 DEF m, s
  <2> QED
    BY <2>3, <2>4
<1>6. CASE length \notin {"B", "H"}
  <2>1. c = ToCell(w)
    <3>1. WriteMask(length, s) = 0 .. 3 /\ Lanes(length, w) = ToCell(w)
      BY <1>6 DEF WriteMask, Lanes
    <3>2. c = [k \in 0 .. 3 |-> ToCell(w)[k]]
      BY <1>2, <3>1
    <3> QED
      BY <3>2 DEF ToCell
  <2> QED
    BY <1>3, <1>6, <2>1, WordOfCell DEF m
<1> QED
  BY <1>4, <1>5, <1>6

-----------------------------------------------------------------------------
(***************************************************************************)
(* The wires carry what the modules expect.                                *)
(***************************************************************************)
LEMMA WiresType ==
  ASSUME PackageTypeOK, NEW in \in PackageInput
  PROVE  CoreIn(in) \in CoreInput /\ DebugIn(in) \in DebugInput
<1>1. /\ pc \in Word /\ em.alu \in Word
      /\ dbg.imemRA \in Word /\ dbg.dmemA \in Word
      /\ dbg.enablePrev \in BOOLEAN
      /\ imem \in IMem /\ dmem \in DMem
  BY DEF PackageTypeOK, CoreTypeOK, DebugTypeOK, EM, Debug
<1>2. imem[IIndex(pc)] \in Word /\ imem[IIndex(dbg.imemRA)] \in Word
  BY <1>1, IndexType DEF IMem
<1>3. ToWord(dmem[DIndex(dbg.dmemA)]) \in Word
  <2>1. dmem[DIndex(dbg.dmemA)] \in Cell
    BY <1>1, IndexType DEF DMem
  <2> QED
    BY <2>1, ToWordType
<1>4. DMemRead(dmem, em.alu, em.control.MemLength, em.control.MemSign)
        \in Word
  BY <1>1, DMemReadType
<1>5. DebugIn(in) \in DebugInput
  BY <1>2, <1>3 DEF DebugIn, DebugInput, PackageInput
<1>6. PcStep(DebugIn(in)) \in BOOLEAN /\ PcReset(DebugIn(in)) \in BOOLEAN
  BY <1>1, <1>5 DEF PcStep, PcReset, Update, DebugInput
<1> QED
  BY <1>2, <1>4, <1>5, <1>6 DEF CoreIn, CoreInput, PackageInput

\* The end of a debugger cycle keeps the types.
LEMMA EdgeType ==
  ASSUME NEW in \in DebugInput, dbg \in Debug, NEW d \in Debug, Edge(in, d)
  PROVE  dbg' \in Debug
<1>1. Add(dbg.imemWA, 4) \in Word /\ Add(dbg.dmemA, 4) \in Word /\ 0 \in Word
  BY AddType DEF Debug
<1>2. [DebugReset EXCEPT !.enablePrev = in.enable] \in Debug
  BY <1>1 DEF DebugReset, Debug, DebugInput
<1>3. \A wa, a \in Word, im, dm, e \in BOOLEAN :
        [d EXCEPT !.imemWA = wa, !.idMode = im, !.dmemA = a, !.ddMode = dm,
                  !.enablePrev = e] \in Debug
  BY DEF Debug
<1>4. /\ d.imemWA \in Word /\ d.dmemA \in Word
      /\ d.idMode \in BOOLEAN /\ d.ddMode \in BOOLEAN
      /\ in.enable \in BOOLEAN
  BY DEF Debug, DebugInput
<1>5. /\ (IF dbg.idMode THEN Add(dbg.imemWA, 4) ELSE d.imemWA) \in Word
      /\ (IF dbg.ddMode THEN Add(dbg.dmemA, 4) ELSE d.dmemA) \in Word
      /\ (IF dbg.idMode THEN FALSE ELSE d.idMode) \in BOOLEAN
      /\ (IF dbg.ddMode THEN FALSE ELSE d.ddMode) \in BOOLEAN
  BY <1>1, <1>4
<1>6. CASE in.reset
  BY <1>2, <1>6 DEF Edge
<1>7. CASE ~in.reset
  BY <1>3, <1>4, <1>5, <1>7 DEF Edge
<1> QED
  BY <1>6, <1>7

\* Every command leaves well-typed registers to the edge; the write modes
\* are raised by one command each, taken on a rising enable, and so is the
\* write address of instruction memory set.
LEMMA CommandType ==
  ASSUME NEW in \in DebugInput, dbg \in Debug, DebugClock(in)
  PROVE  \E d \in Debug :
           /\ Edge(in, d)
           /\ d.idMode => dbg.idMode \/ Command(in, "IMEMWD")
           /\ d.ddMode => dbg.ddMode \/ Command(in, "DMEMWD")
           /\ dbg.idMode \/ Command(in, "IMEMWD") => d.idMode
           /\ d.imemWA = IF Command(in, "IMEMWA") THEN in.dataIn
                         ELSE dbg.imemWA
<1> DEFINE Good(d) == /\ d \in Debug /\ Edge(in, d)
                      /\ d.idMode => dbg.idMode \/ Command(in, "IMEMWD")
                      /\ d.ddMode => dbg.ddMode \/ Command(in, "DMEMWD")
                      /\ dbg.idMode \/ Command(in, "IMEMWD") => d.idMode
                      /\ d.imemWA = IF Command(in, "IMEMWA") THEN in.dataIn
                                    ELSE dbg.imemWA
<1>1. CASE Idle(in)
  BY <1>1 DEF Idle, Command
<1>2. CASE Halt(in)
  <2>1. Good([dbg EXCEPT !.cpuEnable = FALSE])
    BY <1>2 DEF Halt, Command, Debug
  <2> QED
    BY <2>1
<1>3. CASE Start(in)
  <2>1. Good([dbg EXCEPT !.cpuEnable = TRUE])
    BY <1>3 DEF Start, Command, Debug
  <2> QED
    BY <2>1
<1>4. CASE ReadPC(in)
  <2>1. Good([dbg EXCEPT !.dataMode = "PC"])
    BY <1>4 DEF ReadPC, Command, Debug
  <2> QED
    BY <2>1
<1>5. CASE IMemRA(in)
  <2>1. Good([dbg EXCEPT !.imemRA = in.dataIn])
    BY <1>5 DEF IMemRA, Command, Debug, DebugInput
  <2> QED
    BY <2>1
<1>6. CASE IMemWA(in)
  <2>1. Good([dbg EXCEPT !.imemWA = in.dataIn])
    BY <1>6 DEF IMemWA, Command, Debug, DebugInput
  <2> QED
    BY <2>1
<1>7. CASE IMemRD(in)
  <2>1. Good([dbg EXCEPT !.dataOut = in.idrData, !.dataMode = "I",
                         !.imemRA = Add(@, 4)])
    BY <1>7, AddType DEF IMemRD, Command, Debug, DebugInput
  <2> QED
    BY <2>1
<1>8. CASE IMemWD(in)
  <2>1. Good([dbg EXCEPT !.idMode = TRUE])
    BY <1>8 DEF IMemWD, Command, Debug
  <2> QED
    BY <2>1
<1>9. CASE DMemA(in)
  <2>1. Good([dbg EXCEPT !.dmemA = in.dataIn])
    BY <1>9 DEF DMemA, Command, Debug, DebugInput
  <2> QED
    BY <2>1
<1>10. CASE DMemRD(in)
  <2>1. Good([dbg EXCEPT !.dataOut = in.ddataR, !.dataMode = "I",
                         !.dmemA = Add(@, 4)])
    BY <1>10, AddType DEF DMemRD, Command, Debug, DebugInput
  <2> QED
    BY <2>1
<1>11. CASE DMemWD(in)
  <2>1. Good([dbg EXCEPT !.ddMode = TRUE])
    BY <1>11 DEF DMemWD, Command, Debug
  <2> QED
    BY <2>1
<1> QED
  BY <1>1, <1>2, <1>3, <1>4, <1>5, <1>6, <1>7, <1>8, <1>9, <1>10, <1>11
     DEF DebugClock

-----------------------------------------------------------------------------
(***************************************************************************)
(* Types.                                                                  *)
(***************************************************************************)
LEMMA PackageTypeInit == PackageInit => PackageTypeOK
<1> SUFFICES ASSUME PackageInit PROVE PackageTypeOK
  OBVIOUS
<1>1. DebugReset \in Debug
  BY AddType DEF DebugReset, Debug
<1> QED
  BY <1>1, TypeInit, PackageAssumption
     DEF PackageInit, DebugInit, PackageTypeOK, DebugTypeOK

LEMMA MemoriesType ==
  ASSUME PackageTypeOK, NEW in \in PackageInput,
         IMemNext(in), DMemNext(in)
  PROVE  imem' \in IMem /\ dmem' \in DMem
<1>1. /\ em.alu \in Word /\ em.dataB \in Word
      /\ dbg.imemWA \in Word /\ dbg.dmemA \in Word
      /\ imem \in IMem /\ dmem \in DMem /\ in.dDataIn \in Word
  BY DEF PackageTypeOK, CoreTypeOK, DebugTypeOK, EM, Debug, PackageInput
<1>2. imem' \in IMem
  BY <1>1, IndexType DEF IMemNext, IMem
<1>3. ASSUME NEW m \in DMem
      PROVE  /\ DMemWrite(m, em.alu, em.control.MemLength, em.dataB) \in DMem
             /\ [m EXCEPT ![DIndex(dbg.dmemA)] = ToCell(in.dDataIn)] \in DMem
  <2>1. ToCell(in.dDataIn) \in Cell
    BY <1>1, ToCellType
  <2> QED
    BY <1>1, <2>1, DMemWriteType DEF DMem
<1>4. dmem' \in DMem
  BY <1>1, <1>3 DEF DMemNext
<1> QED
  BY <1>2, <1>4

LEMMA TickType ==
  ASSUME PackageTypeOK, NEW in \in PackageInput, Tick(in)
  PROVE  PackageTypeOK'
<1>1. CoreIn(in) \in CoreInput /\ DebugIn(in) \in DebugInput
  BY WiresType
<1>2. CoreTypeOK'
  BY <1>1, ClockType DEF Tick, PackageTypeOK
<1>3. DebugTypeOK'
  BY <1>1, CommandType, EdgeType DEF Tick, PackageTypeOK, DebugTypeOK
<1>4. imem' \in IMem /\ dmem' \in DMem
  BY MemoriesType DEF Tick
<1> QED
  BY <1>2, <1>3, <1>4 DEF PackageTypeOK

LEMMA PackageTypeStep ==
  PackageTypeOK /\ [PackageNext]_package => PackageTypeOK'
<1> SUFFICES ASSUME PackageTypeOK, [PackageNext]_package
             PROVE  PackageTypeOK'
  OBVIOUS
<1>1. CASE PackageNext
  BY <1>1, TickType, PackageAssumption DEF PackageNext
<1>2. CASE UNCHANGED package
  BY <1>2 DEF package, core, PackageTypeOK, CoreTypeOK, DebugTypeOK
<1> QED
  BY <1>1, <1>2

(***************************************************************************)
(* The composed system keeps to its types: no address leaves an array, and *)
(* no byte or word overflows.                                              *)
(***************************************************************************)
THEOREM PackageTypes == PackageSpec => []PackageTypeOK
BY PackageTypeInit, PackageTypeStep, PTL DEF PackageSpec

-----------------------------------------------------------------------------
(***************************************************************************)
(* Timing.  The write modes and the step pulse are raised by a command,    *)
(* which needs enablePrev low and leaves it high: so in the cycle in which *)
(* they are up no command is taken.                                        *)
(***************************************************************************)
TimingInv ==
  /\ PackageTypeOK
  /\ dbg.idMode \/ dbg.ddMode \/ stepPrev => dbg.enablePrev
  /\ ~(dbg.idMode /\ dbg.ddMode)

LEMMA EdgeTiming ==
  ASSUME NEW in \in DebugInput, dbg \in Debug, NEW d \in Debug, Edge(in, d)
  PROVE  /\ dbg'.enablePrev = in.enable
         /\ dbg'.idMode => ~dbg.idMode /\ d.idMode
         /\ dbg'.ddMode => ~dbg.ddMode /\ d.ddMode
<1>1. CASE in.reset
  BY <1>1 DEF Edge, DebugReset
<1>2. CASE ~in.reset
  BY <1>2 DEF Edge, Debug
<1> QED
  BY <1>1, <1>2 DEF DebugInput

LEMMA TimingInit == PackageInit => TimingInv
BY PackageTypeInit
   DEF PackageInit, DebugInit, DebugReset, CoreInit, TimingInv

LEMMA TickTiming ==
  ASSUME TimingInv, NEW in \in PackageInput, Tick(in)
  PROVE  /\ dbg'.idMode \/ dbg'.ddMode \/ stepPrev' => dbg'.enablePrev
         /\ ~(dbg'.idMode /\ dbg'.ddMode)
         /\ dbg'.enablePrev = in.dEnable
<1> DEFINE din == DebugIn(in)
<1>1. din \in DebugInput /\ dbg \in Debug /\ DebugClock(din)
  BY WiresType DEF TimingInv, PackageTypeOK, DebugTypeOK, Tick
<1> HIDE DEF din
<1>2. PICK d \in Debug :
        /\ Edge(din, d)
        /\ d.idMode => dbg.idMode \/ Command(din, "IMEMWD")
        /\ d.ddMode => dbg.ddMode \/ Command(din, "DMEMWD")
  BY <1>1, CommandType
<1>3. /\ dbg'.enablePrev = din.enable
      /\ dbg'.idMode => Command(din, "IMEMWD")
      /\ dbg'.ddMode => Command(din, "DMEMWD")
  BY <1>1, <1>2, EdgeTiming
<1>4. stepPrev' = PcStep(din)
  BY DEF Tick, Clock, Redirect, Stall, Advance, BackEnd, CoreIn, din
<1>5. din.enable = in.dEnable
  BY DEF din, DebugIn
<1> QED
  BY <1>3, <1>4, <1>5 DEF Command, PcStep, Update

LEMMA TimingStep == TimingInv /\ [PackageNext]_package => TimingInv'
<1> SUFFICES ASSUME TimingInv, [PackageNext]_package PROVE TimingInv'
  OBVIOUS
<1>1. PackageTypeOK'
  BY PackageTypeStep DEF TimingInv
<1>2. CASE PackageNext
  BY <1>1, <1>2, TickTiming, PackageAssumption DEF PackageNext, TimingInv
<1>3. CASE UNCHANGED package
  BY <1>1, <1>3
     DEF package, core, TimingInv
<1> QED
  BY <1>2, <1>3

(***************************************************************************)
(* No command is lost to a write cycle: see WriteCycleIsQuiet.             *)
(***************************************************************************)
THEOREM WritesAreQuiet == PackageSpec => []WriteCycleIsQuiet
<1>1. TimingInv => WriteCycleIsQuiet
  BY DEF TimingInv, WriteCycleIsQuiet, Update
<1> QED
  BY <1>1, TimingInit, TimingStep, PTL DEF PackageSpec

(***************************************************************************)
(* A step is never long enough to be one: see StepIsOnePulse.              *)
(***************************************************************************)
THEOREM StepsAreOnePulse == PackageSpec => []StepIsOnePulse
<1>1. TimingInv => StepIsOnePulse
  BY DEF TimingInv, StepIsOnePulse, PcStep, Update
<1> QED
  BY <1>1, TimingInit, TimingStep, PTL DEF PackageSpec

(***************************************************************************)
(* So only pcEnable moves the program counter: see PacedByEnableOnly.      *)
(***************************************************************************)
THEOREM OnlyEnablePaces == PackageSpec => PacedByEnableOnly
<1> DEFINE Paced == \A in \in PackageInputs :
                      Tick(in) /\ ~in.pcEnable => pc' \in {pc, 0}
<1>1. TimingInv => Paced
  <2> SUFFICES ASSUME TimingInv, NEW in \in PackageInputs,
                      Tick(in), ~in.pcEnable
               PROVE  pc' \in {pc, 0}
    OBVIOUS
  <2>1. pc' = PCNext(CoreIn(in))
    BY DEF Tick, Clock, Redirect, Stall, Advance, BackEnd
  <2>2. ~(PcStep(DebugIn(in)) /\ stepPrev)
    BY DEF TimingInv, PcStep, Update
  <2> QED
    BY <2>1, <2>2 DEF PCNext, Step, CoreIn
<1> HIDE DEF Paced
<1>2. TimingInv /\ [PackageNext]_package => [Paced]_package
  BY <1>1
<1>3. PackageSpec => [][Paced]_package
  BY <1>2, TimingInit, TimingStep, PTL DEF PackageSpec
<1> QED
  BY <1>3 DEF Paced, PacedByEnableOnly
=============================================================================
