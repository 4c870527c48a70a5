-------------------------- MODULE PackageISAProofs --------------------------
(***************************************************************************)
(* The pipeline implements the ISA: for every encoding, word width, memory *)
(* size and program whose instructions are far enough apart.               *)
(*                                                                         *)
(* The instruction about to leave MEM is the one the ISA executes next.    *)
(* What makes it right there was decided up to three clocks before, when   *)
(* its operands were read while its three predecessors were under way.  So *)
(* the invariant says of the instruction in EX what its operands are in    *)
(* terms of the registers once the one in MEM has been executed, and of    *)
(* the others at which address of the program they stand.                  *)
(*                                                                         *)
(* From the first jump on, or from the start when the pipeline powers up   *)
(* with zeros, nothing more enters the pipeline: what is in it drains, and *)
(* the ISA stands still.                                                   *)
(***************************************************************************)
EXTENDS PackageISA, PackageProofs

-----------------------------------------------------------------------------
(***************************************************************************)
(* The invariant.                                                          *)
(***************************************************************************)
Instr(p) == Decode[imem[IIndex(p)]]

ReadsRs1(i) == i.class \in {"OP", "OPIMM", "JALR", "LOAD", "STORE"}

\* What the instruction in MEM writes, and the registers when it has.
Result == CASE em.control.WBSel = "DM"  -> DMemRead(dmem, em.alu, em.control.MemLength, em.control.MemSign)
            [] em.control.WBSel = "ALU" -> em.alu
            [] em.control.WBSel = "PC4" -> Add(em.pc, 4)

WritesReg(s, r) == s.control.RegWEn /\ r # 0 /\ s.addrD = r

After == [r \in RegIdx |-> IF WritesReg(em, r) THEN Result ELSE AbsRegs[r]]

\* The instruction at p, executed with registers x: the signals, the ALU's result.
Selected(i, x)  == ControlOut(i, BranchTaken(Signals(i).BrType, x[i.rs1], x[i.rs2]))
Computed(i, p, x) == Alu(Signals(i).ALUSel,
                         IF Signals(i).ASel = "PC" THEN p ELSE x[i.rs1],
                         IF Signals(i).BSel = "IMM" THEN i.imm ELSE x[i.rs2])

InMEM(i) ==
  /\ nextPc = em.pc
  /\ em.control = Selected(i, AbsRegs) /\ em.addrD = i.rd
  /\ i.class # "UNKNOWN" => em.alu = Computed(i, em.pc, AbsRegs)
  /\ i.class = "STORE" => em.dataB = AbsRegs[i.rs2]

InEX(i) ==
  /\ de.control = Selected(i, After)
  /\ de.addrD = i.rd /\ de.addrA = i.rs1 /\ de.addrB = i.rs2 /\ de.imm = i.imm
  /\ ReadsRs1(i) => OperandA = After[i.rs1]
  /\ ReadsRs2(i) => OperandB = After[i.rs2]

\* The instructions under way follow one another in the program; before the first there
\* are NOPs.
Straight ==
  /\ inEM => inDE
  /\ inDE => inFD
  /\ IF inFD THEN fd.inst = imem[IIndex(fd.pc)] /\ pc = Add(fd.pc, 4) ELSE fd.inst = NOP
  /\ IF inDE THEN fd.pc = Add(de.pc, 4) /\ InEX(Instr(de.pc))
     ELSE ~de.control.PCSel /\ ~de.control.MemRW /\ de.control.WBSel = "ALU" /\ de.addrD = 0
  /\ ~em.control.PCSel
  /\ IF inEM THEN de.pc = Add(em.pc, 4) ELSE em.addrD = 0
  /\ mw.addrD # 0 => /\ inEM /\ em.pc = Add(mw.pc, 4)
                     /\ mw.addrD = Instr(mw.pc).rd
                     /\ mw.control.RegWEn = Signals(Instr(mw.pc)).RegWEn
  /\ nextPc = IF inEM THEN em.pc ELSE IF inDE THEN de.pc ELSE IF inFD THEN fd.pc ELSE pc

\* Nothing enters the pipeline any more.
Stopped == ~inFD /\ ~inDE /\ de = Bubble /\ fd.inst = NOP

IsaInv ==
  /\ PackageTypeOK
  /\ ~dbg.idMode /\ ~dbg.ddMode
  /\ inFD \in BOOLEAN /\ inDE \in BOOLEAN /\ inEM \in BOOLEAN
  /\ nextPc \in Word
  /\ regs[0] = 0
  /\ HazardFree(imem)
  /\ IF inEM THEN InMEM(Instr(em.pc))
     ELSE ~em.control.MemRW /\ (em.control.RegWEn => em.addrD = 0)
  /\ Straight \/ Stopped

-----------------------------------------------------------------------------
(***************************************************************************)
(* Rounds of the instruction memory.                                       *)
(***************************************************************************)
LEMMA Associates ==
  ASSUME NEW a \in Int, NEW b \in Int
  PROVE  a * b \in Int /\ (4 * a) * b = 4 * (a * b)
OBVIOUS

LEMMA ModLess ==
  ASSUME NEW N \in Nat \ {0}, NEW x \in Int, NEW k \in Int
  PROVE  ((x % N) - k) % N = (x - k) % N
<1> DEFINE e == x \div N
           s == x % N
           f == (s - k) \div N
           t == (s - k) % N
<1>1. e \in Int /\ s \in 0 .. (N - 1) /\ x = N * e + s
  BY Euclid
<1>2. f \in Int /\ t \in 0 .. (N - 1) /\ s - k = N * f + t
  <2>1. s - k \in Int
    BY <1>1
  <2> HIDE DEF s
  <2> QED
    BY <2>1, Euclid
<1> HIDE DEF e, s, f, t
<1>3. x - k = N * (e + f) + t
  BY <1>1, <1>2
<1>4. (x - k) % N = t
  BY <1>1, <1>2, <1>3, ModUnique
<1> QED
  BY <1>4 DEF s, t

\* The cell before that of the next address is one's own.
LEMMA NextIndex ==
  ASSUME NEW a \in Word
  PROVE  /\ Add(a, 4) \in Word
         /\ (IIndex(Add(a, 4)) - 1) % IMemWords = IIndex(a)
<1> DEFINE N == IMemWords
           M == WordMod
           q == a \div 4
           s == a % 4
           K == M \div (4 * N)
           b == Add(a, 4)
           p == b \div 4
<1>1. N \in Nat \ {0} /\ M \in Nat \ {0} /\ a \in 0 .. (M - 1) /\ 4 * N \in Nat \ {0}
  BY WordAssumption, MemoryAssumption DEF Word
<1>2. q \in Int /\ s \in 0 .. 3 /\ a = 4 * q + s
  BY <1>1, Euclid
<1>3. K \in Int /\ N * K \in Int /\ M = 4 * (N * K)
  <2> DEFINE D == 4 * N
  <2>1. D \in Nat \ {0} /\ M \in Int
    BY <1>1
  <2>2. M % D = 0
    BY RoundAssumption
  <2>3. M \div D \in Int /\ M = (D * (M \div D)) + (M % D)
    <3> HIDE DEF D, M
    <3> QED
      BY <2>1, Euclid
  <2>4. K \in Int /\ M = D * K
    <3>1. K = M \div D
      OBVIOUS
    <3> HIDE DEF D, M, K
    <3> QED
      BY <2>1, <2>2, <2>3, <3>1
  <2> HIDE DEF M, K, N
  <2> QED
    BY <1>1, <2>4, Associates
<1>4. b \in 0 .. (M - 1) /\ (b = a + 4 \/ b = a + 4 - M)
  <2>1. a + 4 \in Int
    BY <1>1
  <2> DEFINE e == (a + 4) \div M
             r == (a + 4) % M
  <2>2. e \in Int /\ r \in 0 .. (M - 1) /\ a + 4 = (M * e) + r
    BY <1>1, <2>1, Euclid
  <2> HIDE DEF e, r
  <2>3. CASE a + 4 < M
    <3>1. a + 4 = (M * 0) + (a + 4) /\ a + 4 \in 0 .. (M - 1)
      BY <1>1, <2>3
    <3>2. (a + 4) % M = a + 4
      BY <1>1, <2>1, <3>1, ModUnique
    <3> QED
      BY <3>1, <3>2 DEF Add
  <2>4. CASE a + 4 >= M
    <3>1. M >= 4
      <4> DEFINE x == N * K
      <4>1. x \in Int /\ M = 4 * x /\ M \in Int /\ M > 0
        BY <1>1, <1>3
      <4> HIDE DEF x, M
      <4> QED
        BY <4>1
    <3>2. a + 4 = (M * 1) + (a + 4 - M) /\ a + 4 - M \in 0 .. (M - 1)
      BY <1>1, <2>4, <3>1
    <3>3. (a + 4) % M = a + 4 - M
      <4> DEFINE y == a + 4
                 z == a + 4 - M
      <4>1. y \in Int /\ z \in 0 .. (M - 1) /\ y = (M * 1) + z /\ M \in Nat \ {0} /\ 1 \in Int
        BY <1>1, <2>1, <3>2
      <4> HIDE DEF y, z, M
      <4>2. y % M = z
        BY <4>1, ModUnique
      <4> QED
        BY <4>2 DEF y, z
    <3> QED
      BY <3>2, <3>3 DEF Add
  <2> QED
    BY <1>1, <2>3, <2>4
<1> HIDE DEF N, M, q, s, K, b
<1>5. p = q + 1 \/ p = q + 1 - (N * K)
  <2>1. CASE b = a + 4
    <3>1. b = 4 * (q + 1) + s /\ b \in Int /\ q + 1 \in Int
      BY <1>1, <1>2, <1>4, <2>1
    <3> QED
      BY <1>2, <3>1, ModUnique
  <2>2. CASE b = a + 4 - M
    <3> DEFINE x == N * K
    <3>1. x \in Int /\ M = 4 * x
      BY <1>1, <1>3
    <3> HIDE DEF x
    <3>2. b = 4 * (q + 1 - x) + s /\ b \in Int /\ q + 1 - x \in Int
      BY <1>1, <1>2, <1>4, <2>2, <3>1
    <3>3. p = q + 1 - x
      BY <1>2, <3>2, ModUnique
    <3> QED
      BY <3>3 DEF x
  <2> QED
    BY <1>4, <2>1, <2>2
<1> HIDE DEF p
<1>6. ((p % N) - 1) % N = q % N
  <2>1. p \in Int
    BY <1>1, <1>2, <1>3, <1>5
  <2>2. ((p % N) - 1) % N = (p - 1) % N
    <3>1. N \in Nat \ {0} /\ 1 \in Int
      BY <1>1
    <3>2. \A k \in Int : ((p % N) - k) % N = (p - k) % N
      BY <2>1, <3>1, ModLess
    <3> QED
      BY <3>1, <3>2
  <2>3. CASE p = q + 1
    <3>1. p - 1 = q
      BY <1>2, <2>3
    <3> QED
      BY <2>2, <3>1
  <2>4. CASE p = q + 1 - (N * K)
    <3> DEFINE e == q \div N
               r == q % N
    <3>1. e \in Int /\ r \in 0 .. (N - 1) /\ q = (N * e) + r
      BY <1>1, <1>2, Euclid
    <3> HIDE DEF e, r
    <3>2. p - 1 = N * (e - K) + r /\ p - 1 \in Int /\ e - K \in Int
      BY <1>1, <1>2, <1>3, <2>4, <3>1
    <3>3. (p - 1) % N = r
      BY <1>1, <3>1, <3>2, ModUnique
    <3> QED
      BY <2>2, <3>3 DEF r
  <2> QED
    BY <1>5, <2>3, <2>4
<1> QED
  BY <1>1, <1>4, <1>6 DEF IIndex, Word, N, M, q, b, p

-----------------------------------------------------------------------------
(***************************************************************************)
(* What HazardFree says of an instruction and the three before it.         *)
(***************************************************************************)
Ago(p, d) == Decode[imem[(IIndex(p) - d) % IMemWords]]

SpacedAfter(i, a1, a2, a3) ==
  /\ ReadsRs1(i) /\ i.rs1 # 0 =>
       /\ a1.rd = i.rs1 => Writes(a1)
       /\ a1.rd # i.rs1 /\ a2.rd = i.rs1 => Writes(a2)
       /\ a1.rd # i.rs1 /\ a2.rd # i.rs1 => ~(Writes(a3) /\ a3.rd = i.rs1)
  /\ \A a \in {a1, a2, a3} : Writes(a) =>
       /\ ReadsRs2(i) => a.rd # i.rs2
       /\ i.class = "BRANCH" => a.rd # i.rs1
  /\ Signals(a1).WBSel = "DM" => a1.rd \notin {i.rs1, i.rs2}

\* Of two distances the smaller.
LEMMA Nearest ==
  /\ Min({1}) = 1 /\ Min({2}) = 2 /\ Min({1, 2}) = 1
BY DEF Min

LEMMA Spaced ==
  ASSUME HazardFree(imem), imem \in IMem, NEW p \in Word
  PROVE  SpacedAfter(Instr(p), Ago(p, 1), Ago(p, 2), Ago(p, 3))
<1> DEFINE j == IIndex(p)
           A(d) == Decode[imem[(j - d) % IMemWords]]
           i == A(0)
           R(r, n) == {d \in 1 .. n : A(d).rd = r}
<1>1. j \in DOMAIN imem /\ A(0) = Instr(p)
  <2>1. j \in 0 .. (IMemWords - 1)
    BY IndexType
  <2>2. (j - 0) % IMemWords = j
    <3> HIDE DEF j
    <3> QED
      BY <2>1, MemoryAssumption
  <2> QED
    BY <2>1, <2>2 DEF Instr, IMem
<1>2. /\ (i.class \in {"OP", "OPIMM", "JALR", "LOAD", "STORE"} /\ i.rs1 # 0)
           => IF R(i.rs1, 2) = {} THEN ~(Writes(A(3)) /\ A(3).rd = i.rs1)
              ELSE Writes(A(Min(R(i.rs1, 2))))
      /\ \A r \in (IF ReadsRs2(i) THEN {i.rs2} ELSE {})
                  \cup (IF i.class = "BRANCH" THEN {i.rs1} ELSE {}) :
           \A d \in R(r, 3) : ~Writes(A(d))
      /\ Signals(A(1)).WBSel = "DM" => A(1).rd \notin {i.rs1, i.rs2}
  BY <1>1 DEF HazardFree
<1>3. Ago(p, 1) = A(1) /\ Ago(p, 2) = A(2) /\ Ago(p, 3) = A(3)
  BY DEF Ago
<1> HIDE DEF A
<1>4. ASSUME ReadsRs1(i), i.rs1 # 0
      PROVE  /\ A(1).rd = i.rs1 => Writes(A(1))
             /\ A(1).rd # i.rs1 /\ A(2).rd = i.rs1 => Writes(A(2))
             /\ A(1).rd # i.rs1 /\ A(2).rd # i.rs1 => ~(Writes(A(3)) /\ A(3).rd = i.rs1)
  <2>1. IF R(i.rs1, 2) = {} THEN ~(Writes(A(3)) /\ A(3).rd = i.rs1)
        ELSE Writes(A(Min(R(i.rs1, 2))))
    BY <1>2, <1>4 DEF ReadsRs1
  <2>2. CASE A(1).rd = i.rs1
    <3>1. R(i.rs1, 2) = {1} \/ R(i.rs1, 2) = {1, 2}
      BY <2>2
    <3> QED
      BY <2>1, <2>2, <3>1, Nearest
  <2>3. CASE A(1).rd # i.rs1 /\ A(2).rd = i.rs1
    <3>1. R(i.rs1, 2) = {2}
      BY <2>3
    <3> QED
      BY <2>1, <2>3, <3>1, Nearest
  <2>4. CASE A(1).rd # i.rs1 /\ A(2).rd # i.rs1
    <3>1. R(i.rs1, 2) = {}
      BY <2>4
    <3> QED
      BY <2>1, <2>4, <3>1
  <2> QED
    BY <2>2, <2>3, <2>4
<1>5. ASSUME NEW d \in 1 .. 3, Writes(A(d))
      PROVE  /\ ReadsRs2(i) => A(d).rd # i.rs2
             /\ i.class = "BRANCH" => A(d).rd # i.rs1
  <2>1. ASSUME NEW r, A(d).rd = r PROVE d \in R(r, 3)
    BY <2>1
  <2> HIDE DEF R
  <2> QED
    BY <1>2, <1>5, <2>1
<1>6. 1 \in 1 .. 3 /\ 2 \in 1 .. 3 /\ 3 \in 1 .. 3
  OBVIOUS
<1> HIDE DEF R
<1> QED
  BY <1>1, <1>2, <1>3, <1>4, <1>5, <1>6 DEF SpacedAfter

\* The predecessors of the next instruction are oneself and one's own predecessors.
LEMMA Before ==
  ASSUME NEW q \in Word, NEW p, p = Add(q, 4)
  PROVE  /\ Ago(p, 1) = Instr(q)
         /\ Ago(p, 2) = Ago(q, 1)
         /\ Ago(p, 3) = Ago(q, 2)
<1> DEFINE N == IMemWords
           k == IIndex(p)
           j == IIndex(q)
<1>1. p \in Word /\ (k - 1) % N = j
  BY NextIndex
<1>2. N \in Nat \ {0} /\ k \in Int /\ k - 1 \in Int
  BY <1>1, IndexType, MemoryAssumption
<1> HIDE DEF N, k, j
<1>3. \A d \in Int : (((k - 1) % N) - d) % N = ((k - 1) - d) % N
  BY <1>2, ModLess
<1>4. (j - 1) % N = (k - 2) % N /\ (j - 2) % N = (k - 3) % N
  <2>1. (k - 1) - 1 = k - 2 /\ (k - 1) - 2 = k - 3
    BY <1>2
  <2>2. (j - 1) % N = ((k - 1) - 1) % N /\ (j - 2) % N = ((k - 1) - 2) % N
    BY <1>1, <1>3
  <2> QED
    BY <2>1, <2>2
<1> QED
  BY <1>1, <1>4 DEF Ago, Instr, N, k, j

-----------------------------------------------------------------------------
(***************************************************************************)
(* A clock while the host is away.                                         *)
(***************************************************************************)
LEMMA RunningInput == Running \in PackageInput
BY WordAssumption DEF Running, PackageInput, Commands, Word

LEMMA RunningTick ==
  ASSUME Tick(Running), ~dbg.idMode, ~dbg.ddMode, dbg \in Debug
  PROVE  /\ imem' = imem
         /\ dmem' = IF CoreStores
                    THEN DMemWrite(dmem, em.alu, em.control.MemLength, em.dataB)
                    ELSE dmem
         /\ ~dbg'.idMode /\ ~dbg'.ddMode
         /\ pc' = IF Flush THEN AluOut ELSE Add(pc, 4)
<1>1. ~Update(DebugIn(Running))
  BY DEF Update, DebugIn, Running
<1>2. imem' = imem
  BY DEF Tick, IMemNext
<1>3. dmem' = IF CoreStores
              THEN DMemWrite(dmem, em.alu, em.control.MemLength, em.dataB)
              ELSE dmem
  BY DEF Tick, DMemNext
<1>4. Edge(DebugIn(Running), dbg)
  BY <1>1 DEF Tick, DebugClock, Idle, Halt, Start, ReadPC, IMemRA, IMemWA, IMemRD,
     IMemWD, DMemA, DMemRD, DMemWD, Command
<1>5. ~dbg'.idMode /\ ~dbg'.ddMode
  BY <1>4 DEF Edge, DebugIn, Running, Debug
<1>6. ~PcReset(DebugIn(Running))
  BY <1>1 DEF PcReset
<1>7. pc' = IF Flush THEN AluOut ELSE Add(pc, 4)
  BY <1>6 DEF Tick, Clock, Redirect, Stall, Advance, BackEnd, PCNext, CoreIn, Running, Flush
<1> QED
  BY <1>2, <1>3, <1>5, <1>7

\* The back end at such a clock.
LEMMA RunningBackEnd ==
  ASSUME Tick(Running)
  PROVE  /\ em' = [control |-> de.control, alu |-> AluOut, dataB |-> OperandB,
                   pc |-> de.pc, addrD |-> de.addrD]
         /\ mw' = [control |-> em.control, alu |-> em.alu, pc |-> em.pc,
                   dmemDR |-> DMemRead(dmem, em.alu, em.control.MemLength, em.control.MemSign),
                   addrD |-> em.addrD]
         /\ regs' = IF mw.control.RegWEn /\ mw.addrD # 0
                    THEN [regs EXCEPT ![mw.addrD] = Wb] ELSE regs
BY DEF Tick, Clock, Redirect, Stall, Advance, BackEnd, RegsNext, CoreIn, Running

\* WB writes what AbsRegs shows already.
LEMMA RegsNextIsAbs ==
  ASSUME Tick(Running), PackageTypeOK
  PROVE  regs' = AbsRegs
<1>1. regs \in [RegIdx -> Word] /\ mw.addrD \in RegIdx
  BY DEF PackageTypeOK, CoreTypeOK, MW
<1>2. regs' = IF mw.control.RegWEn /\ mw.addrD # 0
              THEN [regs EXCEPT ![mw.addrD] = Wb] ELSE regs
  BY RunningBackEnd
<1>3. CASE mw.control.RegWEn /\ mw.addrD # 0
  BY <1>1, <1>2, <1>3 DEF AbsRegs
<1>4. CASE ~(mw.control.RegWEn /\ mw.addrD # 0)
  <2>1. AbsRegs = [r \in RegIdx |-> regs[r]]
    BY <1>4 DEF AbsRegs
  <2> QED
    BY <1>1, <1>2, <1>4, <2>1
<1> QED
  BY <1>3, <1>4

\* The instruction in MEM is executed by the clock.
LEMMA AfterStep ==
  ASSUME Tick(Running), PackageTypeOK
  PROVE  AbsRegs' = After
<1>1. em.control \in ControlSignals
  BY DEF PackageTypeOK, CoreTypeOK, EM
<1>2. Wb' = Result
  <2>1. /\ mw'.control = em.control /\ mw'.alu = em.alu /\ mw'.pc = em.pc
        /\ mw'.dmemDR = DMemRead(dmem, em.alu, em.control.MemLength, em.control.MemSign)
    BY RunningBackEnd
  <2>2. Wb' = CASE mw'.control.WBSel = "DM"  -> mw'.dmemDR
                [] mw'.control.WBSel = "ALU" -> mw'.alu
                [] mw'.control.WBSel = "PC4" -> Add(mw'.pc, 4)
    BY DEF Wb
  <2> QED
    BY <2>1, <2>2 DEF Result
<1>3. AbsRegs' = [r \in RegIdx |-> IF mw'.control.RegWEn /\ r # 0 /\ mw'.addrD = r
                                   THEN Wb' ELSE regs'[r]]
  BY DEF AbsRegs
<1>4. mw'.control = em.control /\ mw'.addrD = em.addrD
  BY RunningBackEnd
<1>5. regs' = AbsRegs
  BY RegsNextIsAbs
<1> QED
  BY <1>2, <1>3, <1>4, <1>5 DEF After, WritesReg

LEMMA AbsType ==
  ASSUME PackageTypeOK
  PROVE  /\ Wb \in Word /\ Result \in Word
         /\ AbsRegs \in [RegIdx -> Word] /\ After \in [RegIdx -> Word]
<1>1. /\ mw \in MW /\ em \in EM /\ regs \in [RegIdx -> Word] /\ dmem \in DMem
  BY DEF PackageTypeOK, CoreTypeOK
<1>2. /\ mw.alu \in Word /\ mw.pc \in Word /\ mw.dmemDR \in Word
      /\ em.alu \in Word /\ em.pc \in Word
      /\ mw.control.WBSel \in {"DM", "ALU", "PC4"} /\ em.control.WBSel \in {"DM", "ALU", "PC4"}
  BY <1>1 DEF MW, EM, ControlSignals
<1>3. Wb \in Word
  BY <1>2, AddType DEF Wb
<1>4. DMemRead(dmem, em.alu, em.control.MemLength, em.control.MemSign) \in Word
  BY <1>1, <1>2, DMemReadType
<1>5. Result \in Word
  BY <1>2, <1>4, AddType DEF Result
<1>6. AbsRegs \in [RegIdx -> Word]
  BY <1>1, <1>3 DEF AbsRegs
<1> QED
  BY <1>3, <1>5, <1>6 DEF After

-----------------------------------------------------------------------------
(***************************************************************************)
(* ID reads the right registers.                                           *)
(***************************************************************************)
\* What the signals say of the classes.
LEMMA SignalsOf ==
  ASSUME NEW i, NEW t \in BOOLEAN
  PROVE  /\ ControlOut(i, t).RegWEn = Signals(i).RegWEn
         /\ ControlOut(i, t).WBSel = Signals(i).WBSel
         /\ ControlOut(i, t).MemRW = Signals(i).MemRW
         /\ ControlOut(i, t).ALUSel = Signals(i).ALUSel
         /\ ControlOut(i, t).ASel = Signals(i).ASel
         /\ ControlOut(i, t).BSel = Signals(i).BSel
         /\ ControlOut(i, t).MemLength = Signals(i).MemLength
         /\ ControlOut(i, t).MemSign = Signals(i).MemSign
         /\ ControlOut(i, t).PCSel <=> (t \/ i.class \in {"JAL", "JALR"})
<1> DEFINE s == Signals(i)
           u == t \/ s.PCSel
<1>1. DOMAIN s = {"PCSel", "RegWEn", "BrType", "BSel", "ASel", "ALUSel", "MemRW", "WBSel",
                  "MemLength", "MemSign"}
  BY DEF Signals
<1>2. ControlOut(i, t) = [s EXCEPT !.PCSel = u]
  BY DEF ControlOut
<1>3. u <=> (t \/ i.class \in {"JAL", "JALR"})
  BY DEF Signals
<1> HIDE DEF s, u
<1>4. [s EXCEPT !.PCSel = u].PCSel = u
  BY <1>1
<1>5. \A k \in DOMAIN s : k # "PCSel" => [s EXCEPT !.PCSel = u][k] = s[k]
  OBVIOUS
<1>6. /\ [s EXCEPT !.PCSel = u].RegWEn = s.RegWEn
      /\ [s EXCEPT !.PCSel = u].WBSel = s.WBSel
      /\ [s EXCEPT !.PCSel = u].MemRW = s.MemRW
      /\ [s EXCEPT !.PCSel = u].ALUSel = s.ALUSel
      /\ [s EXCEPT !.PCSel = u].ASel = s.ASel
      /\ [s EXCEPT !.PCSel = u].BSel = s.BSel
      /\ [s EXCEPT !.PCSel = u].MemLength = s.MemLength
      /\ [s EXCEPT !.PCSel = u].MemSign = s.MemSign
  BY <1>1, <1>5
<1> QED
  BY <1>2, <1>3, <1>4, <1>6 DEF s

LEMMA SelectedIs ==
  ASSUME NEW i, NEW x
  PROVE  \E t \in BOOLEAN :
           /\ Selected(i, x) = ControlOut(i, t)
           /\ t <=> BranchTaken(Signals(i).BrType, x[i.rs1], x[i.rs2])
<1>1. BranchTaken(Signals(i).BrType, x[i.rs1], x[i.rs2]) \in BOOLEAN
  BY DEF BranchTaken
<1> HIDE DEF BranchTaken
<1> QED
  BY <1>1 DEF Selected

LEMMA JumpsOnlyLink ==
  ASSUME NEW i
  PROVE  /\ Signals(i).WBSel = "PC4" => i.class \in {"JAL", "JALR"}
         /\ i.class # "BRANCH" => Signals(i).BrType = "XX"
         /\ Signals(i).WBSel \in {"DM", "ALU", "PC4"}
BY DEF Signals

\* The comparator matters to a branch only.
LEMMA ComparesForBranches ==
  ASSUME NEW i, NEW a, NEW b, NEW c, NEW d,
         i.class = "BRANCH" => a = c /\ b = d
  PROVE  BranchTaken(Signals(i).BrType, a, b) = BranchTaken(Signals(i).BrType, c, d)
<1>1. CASE i.class = "BRANCH"
  BY <1>1
<1>2. CASE i.class # "BRANCH"
  <2>1. Signals(i).BrType = "XX"
    BY <1>2, JumpsOnlyLink
  <2> QED
    BY <2>1 DEF BranchTaken
<1> QED
  BY <1>1, <1>2

\* A register no instruction on its way writes is read as it will be.
LEMMA ReadsSettled ==
  ASSUME Tick(Running), PackageTypeOK, regs[0] = 0, NEW r \in RegIdx,
         ~WritesReg(de, r), ~WritesReg(em, r), ~WritesReg(mw, r)
  PROVE  ReadReg(r) = After'[r]
<1>1. em'.control = de.control /\ em'.addrD = de.addrD
  BY RunningBackEnd
<1>2. After'[r] = IF em'.control.RegWEn /\ r # 0 /\ em'.addrD = r THEN Result' ELSE AbsRegs'[r]
  BY DEF After, WritesReg
<1>3. After'[r] = AbsRegs'[r]
  BY <1>1, <1>2 DEF WritesReg
<1>4. AbsRegs'[r] = After[r]
  BY AfterStep
<1>5. After[r] = AbsRegs[r]
  BY DEF After
<1>6. AbsRegs[r] = regs[r]
  BY DEF AbsRegs, WritesReg
<1> QED
  BY <1>3, <1>4, <1>5, <1>6 DEF ReadReg

\* One that the next in EX will have written is taken from there.
LEMMA ReadsFromEX ==
  ASSUME Tick(Running), PackageTypeOK, NEW r \in RegIdx,
         WritesReg(de, r), de.control.WBSel = "ALU"
  PROVE  em'.alu = After'[r]
<1>1. em'.control = de.control /\ em'.addrD = de.addrD
  BY RunningBackEnd
<1>2. After'[r] = IF em'.control.RegWEn /\ r # 0 /\ em'.addrD = r THEN Result' ELSE AbsRegs'[r]
  BY DEF After, WritesReg
<1>3. After'[r] = Result'
  BY <1>1, <1>2 DEF WritesReg
<1>4. Result' = em'.alu
  BY <1>1 DEF Result
<1> QED
  BY <1>3, <1>4

\* One that the next but one will have written is taken from WB.
LEMMA ReadsFromMEM ==
  ASSUME Tick(Running), PackageTypeOK, NEW r \in RegIdx,
         ~WritesReg(de, r), WritesReg(em, r)
  PROVE  Wb' = After'[r]
<1>1. em'.control = de.control /\ em'.addrD = de.addrD
  BY RunningBackEnd
<1>2. mw'.control = em.control /\ mw'.addrD = em.addrD
  BY RunningBackEnd
<1>3. After'[r] = IF em'.control.RegWEn /\ r # 0 /\ em'.addrD = r THEN Result' ELSE AbsRegs'[r]
  BY DEF After, WritesReg
<1>4. After'[r] = AbsRegs'[r]
  BY <1>1, <1>3 DEF WritesReg
<1>5. AbsRegs'[r] = IF mw'.control.RegWEn /\ r # 0 /\ mw'.addrD = r THEN Wb' ELSE regs'[r]
  BY DEF AbsRegs
<1> QED
  BY <1>2, <1>4, <1>5 DEF WritesReg

-----------------------------------------------------------------------------
(***************************************************************************)
(* From EX to MEM.                                                         *)
(***************************************************************************)
LEMMA ComputedInEX ==
  ASSUME NEW i \in Instruction, InEX(i), i.class # "UNKNOWN"
  PROVE  AluOut = Computed(i, de.pc, After)
<1>1. /\ de.control.ALUSel = Signals(i).ALUSel
      /\ de.control.ASel = Signals(i).ASel
      /\ de.control.BSel = Signals(i).BSel
      /\ de.imm = i.imm
  <2>1. PICK t \in BOOLEAN : Selected(i, After) = ControlOut(i, t)
    BY SelectedIs
  <2>2. de.control = ControlOut(i, t) /\ de.imm = i.imm
    BY <2>1 DEF InEX
  <2> QED
    BY <2>2, SignalsOf
<1>2. Signals(i).ASel # "PC" => OperandA = After[i.rs1]
  <2>1. ASSUME Signals(i).ASel # "PC" PROVE ReadsRs1(i)
    BY <1>1, <2>1 DEF Signals, ReadsRs1, Instruction, Classes
  <2> QED
    BY <2>1 DEF InEX
<1>3. Signals(i).BSel # "IMM" => OperandB = After[i.rs2]
  <2>1. ASSUME Signals(i).BSel # "IMM" PROVE ReadsRs2(i)
    BY <2>1 DEF Signals, ReadsRs2
  <2> QED
    BY <2>1 DEF InEX
<1> QED
  BY <1>1, <1>2, <1>3 DEF AluOut, Computed

LEMMA ToMEM ==
  ASSUME Tick(Running), PackageTypeOK, NEW i \in Instruction, InEX(i), nextPc' = de.pc
  PROVE  InMEM(i)'
<1>1. em' = [control |-> de.control, alu |-> AluOut, dataB |-> OperandB,
             pc |-> de.pc, addrD |-> de.addrD]
  BY RunningBackEnd
<1>2. AbsRegs' = After
  BY AfterStep
<1>3. em'.control = Selected(i, AbsRegs') /\ em'.addrD = i.rd
  BY <1>1, <1>2 DEF InEX
<1>4. i.class # "UNKNOWN" => em'.alu = Computed(i, em'.pc, AbsRegs')
  BY <1>1, <1>2, ComputedInEX
<1>5. i.class = "STORE" => em'.dataB = AbsRegs'[i.rs2]
  BY <1>1, <1>2 DEF InEX, ReadsRs2
<1>6. nextPc' = em'.pc
  BY <1>1
<1> QED
  BY <1>3, <1>4, <1>5, <1>6 DEF InMEM

-----------------------------------------------------------------------------
(***************************************************************************)
(* From ID to EX.                                                          *)
(***************************************************************************)
\* The stage s holds the instruction a, or writes nothing.
StandsFor(s, a) ==
  s.addrD # 0 => s.addrD = a.rd /\ (s.control.RegWEn <=> Signals(a).RegWEn)

\* The three instructions ahead of the one in ID.
AheadOfID(a1, a2, a3) ==
  /\ SpacedAfter(Instr(fd.pc), a1, a2, a3)
  /\ StandsFor(de, a1) /\ StandsFor(em, a2) /\ StandsFor(mw, a3)
  /\ em.addrD # 0 => de.addrD = a1.rd
  /\ mw.addrD # 0 => de.addrD = a1.rd /\ em.addrD = a2.rd
  /\ de.control.WBSel # "ALU" => de.addrD = a1.rd /\ de.control.WBSel = Signals(a1).WBSel
  /\ de.control.WBSel = "PC4" => Flush

LEMMA InstrType ==
  ASSUME imem \in IMem, NEW p \in Word
  PROVE  Instr(p) \in Instruction
<1>1. imem[IIndex(p)] \in Word
  BY IndexType DEF IMem
<1> QED
  BY <1>1, DecodeAssumption DEF Instr

LEMMA CountersType ==
  ASSUME PackageTypeOK
  PROVE  /\ pc \in Word /\ fd.pc \in Word /\ de.pc \in Word /\ em.pc \in Word /\ mw.pc \in Word
         /\ imem \in IMem /\ dmem \in DMem
         /\ Instr(fd.pc) \in Instruction /\ Instr(de.pc) \in Instruction
         /\ Instr(em.pc) \in Instruction /\ Instr(mw.pc) \in Instruction
<1>1. /\ pc \in Word /\ fd.pc \in Word /\ de.pc \in Word /\ em.pc \in Word /\ mw.pc \in Word
      /\ imem \in IMem /\ dmem \in DMem
  BY DEF PackageTypeOK, CoreTypeOK, FD, DE, EM, MW
<1> QED
  BY <1>1, InstrType

LEMMA Ahead ==
  ASSUME IsaInv, Straight, inFD
  PROVE  \E a1, a2, a3 : AheadOfID(a1, a2, a3)
<1> DEFINE a1 == Ago(fd.pc, 1)
           a2 == Ago(fd.pc, 2)
           a3 == Ago(fd.pc, 3)
<1>1. PackageTypeOK /\ HazardFree(imem)
  BY DEF IsaInv
<1>2. /\ fd.pc \in Word /\ de.pc \in Word /\ em.pc \in Word /\ mw.pc \in Word /\ imem \in IMem
  BY <1>1, CountersType
<1>3. SpacedAfter(Instr(fd.pc), a1, a2, a3)
  BY <1>1, <1>2, Spaced
<1>4. CASE ~inDE
  <2>1. ~inEM /\ de.addrD = 0 /\ em.addrD = 0 /\ mw.addrD = 0
    BY <1>4 DEF Straight
  <2>2. de.control.WBSel = "ALU"
    BY <1>4 DEF Straight
  <2> HIDE DEF a1, a2, a3
  <2>3. AheadOfID(a1, a2, a3)
    BY <1>3, <2>1, <2>2 DEF AheadOfID, StandsFor
  <2> QED
    BY <2>3
<1>5. CASE inDE
  <2>1. fd.pc = Add(de.pc, 4) /\ InEX(Instr(de.pc))
    BY <1>5 DEF Straight
  <2>2. a1 = Instr(de.pc) /\ a2 = Ago(de.pc, 1) /\ a3 = Ago(de.pc, 2)
    BY <1>2, <2>1, Before
  <2>3. inEM => de.pc = Add(em.pc, 4) /\ InMEM(Instr(em.pc))
    BY DEF Straight, IsaInv
  <2>4. inEM => a2 = Instr(em.pc) /\ a3 = Ago(em.pc, 1)
    BY <1>2, <2>2, <2>3, Before
  <2>5. mw.addrD # 0 => inEM /\ em.pc = Add(mw.pc, 4)
    BY DEF Straight
  <2>6. mw.addrD # 0 => a3 = Instr(mw.pc)
    BY <1>2, <2>4, <2>5, Before
  <2> HIDE DEF a1, a2, a3
  <2>7. PICK t \in BOOLEAN : Selected(a1, After) = ControlOut(a1, t)
    BY SelectedIs
  <2>8. de.control = ControlOut(a1, t) /\ de.addrD = a1.rd
    BY <2>1, <2>2, <2>7 DEF InEX
  <2>9. /\ de.control.RegWEn = Signals(a1).RegWEn
        /\ de.control.WBSel = Signals(a1).WBSel
        /\ de.control.PCSel <=> (t \/ a1.class \in {"JAL", "JALR"})
    BY <2>8, SignalsOf
  <2>10. StandsFor(de, a1)
    BY <2>8, <2>9 DEF StandsFor
  <2>11. de.control.WBSel = "PC4" => Flush
    BY <2>9, JumpsOnlyLink DEF Flush
  <2>12. StandsFor(em, a2) /\ (inEM => em.addrD = a2.rd)
    <3>1. CASE ~inEM
      BY <3>1 DEF Straight, StandsFor
    <3>2. CASE inEM
      <4>1. PICK u \in BOOLEAN : Selected(a2, AbsRegs) = ControlOut(a2, u)
        BY SelectedIs
      <4>2. em.control = ControlOut(a2, u) /\ em.addrD = a2.rd
        BY <2>3, <2>4, <3>2, <4>1 DEF InMEM
      <4> QED
        BY <4>2, SignalsOf DEF StandsFor
    <3> QED
      BY <3>1, <3>2
  <2>13. StandsFor(mw, a3)
    BY <2>6 DEF Straight, StandsFor
  <2>14. em.addrD # 0 => inEM
    BY DEF Straight
  <2>15. AheadOfID(a1, a2, a3)
    BY <1>3, <2>5, <2>14, <2>8, <2>9, <2>10, <2>11, <2>12, <2>13 DEF AheadOfID
  <2> QED
    BY <2>15
<1> QED
  BY <1>4, <1>5

\* A program free of hazards never stalls.
LEMMA NeverStalls ==
  ASSUME IsaInv, Straight, inFD, ~Flush
  PROVE  ~LoadUse
<1>1. Fetched = Instr(fd.pc)
  BY DEF Straight, Fetched, Instr
<1>2. PICK a1, a2, a3 : AheadOfID(a1, a2, a3)
  BY Ahead
<1>3. SUFFICES ASSUME de.control.WBSel = "DM" PROVE de.addrD \notin {Fetched.rs1, Fetched.rs2}
  BY DEF LoadUse
<1>4. de.addrD = a1.rd /\ Signals(a1).WBSel = "DM"
  BY <1>2, <1>3 DEF AheadOfID
<1> QED
  BY <1>1, <1>2, <1>4 DEF AheadOfID, SpacedAfter

LEMMA ToEX ==
  ASSUME IsaInv, Straight, inFD, ~Flush, Tick(Running), NEW i \in Instruction, i = Instr(fd.pc)
  PROVE  InEX(i)'
<1>1. Fetched = i
  BY DEF Straight, Fetched, Instr
<1>2. PICK a1, a2, a3 : AheadOfID(a1, a2, a3)
  BY Ahead
<1>3. PackageTypeOK /\ regs[0] = 0 /\ i.rs1 \in RegIdx /\ i.rs2 \in RegIdx
  BY DEF IsaInv, Instruction
<1>4. de' = Decoded
  BY NeverStalls DEF Tick, Clock, Redirect, Stall, Advance
<1>5. em'.addrD = de.addrD /\ mw'.addrD = em.addrD
  BY RunningBackEnd
<1>6. /\ de'.control = ControlOut(i, BrTaken)
      /\ de'.dataA = ReadReg(i.rs1) /\ de'.dataB = ReadReg(i.rs2)
      /\ de'.addrD = i.rd /\ de'.addrA = i.rs1 /\ de'.addrB = i.rs2 /\ de'.imm = i.imm
  BY <1>1, <1>4 DEF Decoded
<1>7. ASSUME NEW r \in RegIdx, \A a \in {a1, a2, a3} : Writes(a) => a.rd # r
      PROVE  ReadReg(r) = After'[r]
  <2>1. ~WritesReg(de, r) /\ ~WritesReg(em, r) /\ ~WritesReg(mw, r)
    BY <1>2, <1>7 DEF AheadOfID, StandsFor, WritesReg, Writes
  <2> QED
    BY <1>3, <2>1, ReadsSettled
<1>8. ReadsRs2(i) => ReadReg(i.rs2) = After'[i.rs2]
  BY <1>2, <1>3, <1>7 DEF AheadOfID, SpacedAfter
<1>9. de'.control = Selected(i, After')
  <2>1. ASSUME i.class = "BRANCH"
        PROVE  ReadReg(i.rs1) = After'[i.rs1] /\ ReadReg(i.rs2) = After'[i.rs2]
    <3>1. ReadsRs2(i)
      BY <2>1 DEF ReadsRs2
    <3> QED
      BY <1>2, <1>3, <1>7, <1>8, <2>1, <3>1 DEF AheadOfID, SpacedAfter
  <2>2. BranchTaken(Signals(i).BrType, ReadReg(i.rs1), ReadReg(i.rs2))
        = BranchTaken(Signals(i).BrType, After'[i.rs1], After'[i.rs2])
    BY <2>1, ComparesForBranches
  <2> QED
    BY <1>1, <1>6, <2>2 DEF Selected, BrTaken
<1>10. ASSUME ReadsRs1(i) PROVE OperandA' = After'[i.rs1]
  <2> DEFINE r == i.rs1
  <2>1. OperandA' = IF r # 0 /\ em'.addrD = r THEN em'.alu
                    ELSE IF r # 0 /\ mw'.addrD = r THEN Wb' ELSE ReadReg(r)
    BY <1>6 DEF OperandA, Forward
  <2>2. CASE r = 0
    <3>1. ~WritesReg(de, r) /\ ~WritesReg(em, r) /\ ~WritesReg(mw, r)
      BY <2>2 DEF WritesReg
    <3> QED
      BY <1>3, <2>1, <2>2, <3>1, ReadsSettled
  <2>3. CASE r # 0 /\ de.addrD = r
    <3>1. a1.rd = r /\ (de.control.RegWEn <=> Signals(a1).RegWEn)
      BY <1>2, <2>3 DEF AheadOfID, StandsFor
    <3>2. Writes(a1)
      BY <1>2, <1>10, <2>3, <3>1 DEF AheadOfID, SpacedAfter
    <3>3. WritesReg(de, r)
      BY <2>3, <3>1, <3>2 DEF WritesReg, Writes
    <3>4. de.control.WBSel = "ALU"
      <4>1. de.control.WBSel \in {"DM", "ALU", "PC4"}
        BY <1>3 DEF PackageTypeOK, CoreTypeOK, DE, ControlSignals
      <4>2. de.control.WBSel # "PC4"
        BY <1>2 DEF AheadOfID
      <4>3. de.control.WBSel # "DM"
        BY <1>2, <3>1 DEF AheadOfID, SpacedAfter
      <4> QED
        BY <4>1, <4>2, <4>3
    <3>5. em'.alu = After'[r]
      BY <1>3, <3>3, <3>4, ReadsFromEX
    <3> QED
      BY <1>5, <2>1, <2>3, <3>5
  <2>4. CASE r # 0 /\ de.addrD # r /\ em.addrD = r
    <3>1. a2.rd = r /\ (em.control.RegWEn <=> Signals(a2).RegWEn)
      BY <1>2, <2>4 DEF AheadOfID, StandsFor
    <3>2. a1.rd # r
      BY <1>2, <2>4 DEF AheadOfID
    <3>3. Writes(a2)
      BY <1>2, <1>10, <2>4, <3>1, <3>2 DEF AheadOfID, SpacedAfter
    <3>4. WritesReg(em, r) /\ ~WritesReg(de, r)
      BY <2>4, <3>1, <3>3 DEF WritesReg, Writes
    <3>5. Wb' = After'[r]
      BY <1>3, <3>4, ReadsFromMEM
    <3> QED
      BY <1>5, <2>1, <2>4, <3>5
  <2>5. CASE r # 0 /\ de.addrD # r /\ em.addrD # r
    <3>1. ~WritesReg(de, r) /\ ~WritesReg(em, r)
      BY <2>5 DEF WritesReg
    <3>2. ~WritesReg(mw, r)
      <4>1. SUFFICES ASSUME WritesReg(mw, r) PROVE FALSE
        OBVIOUS
      <4>2. mw.addrD = r /\ mw.addrD # 0
        BY <2>5, <4>1 DEF WritesReg
      <4>3. a3.rd = r /\ Writes(a3)
        BY <1>2, <2>5, <4>1, <4>2 DEF AheadOfID, StandsFor, WritesReg, Writes
      <4>4. a1.rd # r /\ a2.rd # r
        BY <1>2, <2>5, <4>2 DEF AheadOfID
      <4> QED
        BY <1>2, <1>10, <2>5, <4>3, <4>4 DEF AheadOfID, SpacedAfter
    <3>3. ReadReg(r) = After'[r]
      BY <1>3, <3>1, <3>2, ReadsSettled
    <3> QED
      BY <1>5, <2>1, <2>5, <3>3
  <2> QED
    BY <2>2, <2>3, <2>4, <2>5
<1>11. OperandB' = de'.dataB
  BY DEF OperandB
<1> QED
  BY <1>6, <1>8, <1>9, <1>10, <1>11 DEF InEX

-----------------------------------------------------------------------------
(***************************************************************************)
(* The invariant is kept.                                                  *)
(***************************************************************************)
LEMMA NopIs ==
  /\ Decode[NOP].class = "OPIMM" /\ Decode[NOP].rd = 0 /\ Decode[NOP].rs1 = 0
  /\ Signals(Decode[NOP]).WBSel = "ALU" /\ ~Signals(Decode[NOP]).MemRW
  /\ ~Signals(Decode[NOP]).PCSel
<1>1. /\ Decode[NOP].class = "OPIMM" /\ Decode[NOP].rd = 0 /\ Decode[NOP].rs1 = 0
  BY DecodeAssumption
<1> QED
  BY <1>1 DEF Signals

LEMMA BubbleIs ==
  /\ Bubble.addrD = 0 /\ Bubble.control.WBSel = "DM" /\ ~Bubble.control.PCSel
  /\ ~Bubble.control.MemRW /\ ~Bubble.control.RegWEn
BY DEF Bubble, ZeroSignals

\* The address that follows what is in MEM is where EX stands.
LEMMA NextPcStep ==
  ASSUME IsaInv, Straight, RunNext
  PROVE  /\ inDE => nextPc' = de.pc
         /\ ~inDE => nextPc' = nextPc
<1>1. nextPc' = IF ~inEM THEN nextPc ELSE IF em.control.PCSel THEN em.alu ELSE Add(em.pc, 4)
  BY DEF RunNext, History
<1>2. ~em.control.PCSel /\ (inEM => inDE /\ de.pc = Add(em.pc, 4))
  BY DEF Straight
<1>3. ~inEM /\ inDE => nextPc = de.pc
  BY DEF Straight
<1> QED
  BY <1>1, <1>2, <1>3

LEMMA RunningBasics ==
  ASSUME IsaInv, RunNext
  PROVE  /\ Tick(Running) /\ PackageTypeOK /\ PackageTypeOK'
         /\ ~dbg'.idMode /\ ~dbg'.ddMode
         /\ imem' = imem /\ (\A p : Instr(p)' = Instr(p))
         /\ pc' = IF Flush THEN AluOut ELSE Add(pc, 4)
<1>1. Tick(Running) /\ PackageTypeOK
  BY DEF IsaInv, RunNext
<1>2. dbg \in Debug /\ ~dbg.idMode /\ ~dbg.ddMode
  BY DEF IsaInv, PackageTypeOK, DebugTypeOK
<1>3. /\ imem' = imem /\ ~dbg'.idMode /\ ~dbg'.ddMode
      /\ pc' = IF Flush THEN AluOut ELSE Add(pc, 4)
  BY <1>1, <1>2, RunningTick
<1>4. PackageTypeOK'
  BY <1>1, RunningInput, TickType
<1>5. \A p : Instr(p)' = Instr(p)
  BY <1>3 DEF Instr
<1> QED
  BY <1>1, <1>3, <1>4, <1>5

\* What leaves EX is in MEM as it should be.
LEMMA MemStep ==
  ASSUME IsaInv, RunNext
  PROVE  IF inEM' THEN InMEM(Instr(em.pc))'
         ELSE ~em'.control.MemRW /\ (em'.control.RegWEn => em'.addrD = 0)
<1>1. Tick(Running) /\ PackageTypeOK /\ \A p : Instr(p)' = Instr(p)
  BY RunningBasics
<1>2. em'.control = de.control /\ em'.addrD = de.addrD /\ em'.pc = de.pc
  BY <1>1, RunningBackEnd
<1>3. inEM' = inDE
  BY DEF RunNext, History
<1>4. CASE inDE
  <2>1. Straight
    BY <1>4 DEF IsaInv, Stopped
  <2>2. InEX(Instr(de.pc)) /\ nextPc' = de.pc
    BY <1>4, <2>1, NextPcStep DEF Straight
  <2> DEFINE i == Instr(de.pc)
  <2>3. i \in Instruction
    BY <1>1, CountersType
  <2>4. \A j : (Instr(em.pc))' = j <=> i = j
    BY <1>1, <1>2
  <2> HIDE DEF i
  <2>5. ASSUME NEW j \in Instruction, j = i PROVE InMEM(j)'
    BY <1>1, <2>2, <2>5, ToMEM DEF i
  <2>6. InMEM(Instr(em.pc))'
    BY <2>3, <2>4, <2>5
  <2> QED
    BY <1>3, <1>4, <2>6
<1>5. CASE ~inDE
  <2>1. ~de.control.MemRW /\ (de.control.RegWEn => de.addrD = 0)
    <3>1. CASE Straight
      BY <1>5, <3>1 DEF Straight
    <3>2. CASE Stopped
      BY <3>2, BubbleIs DEF Stopped
    <3> QED
      BY <3>1, <3>2 DEF IsaInv
  <2> QED
    BY <1>2, <1>3, <1>5, <2>1
<1> QED
  BY <1>4, <1>5 DEF IsaInv

\* A jump empties the stages behind it, for good.
LEMMA FlushStops ==
  ASSUME IsaInv, RunNext, Flush
  PROVE  Stopped'
<1>1. Redirect(CoreIn(Running))
  BY DEF RunNext, Tick, Clock, Stall, Advance
<1>2. de' = Bubble /\ fd'.inst = NOP
  BY <1>1 DEF Redirect, FDNext
<1>3. ~inFD' /\ ~inDE'
  BY DEF RunNext, History
<1> QED
  BY <1>2, <1>3 DEF Stopped

LEMMA StoppedStays ==
  ASSUME IsaInv, RunNext, Stopped
  PROVE  Stopped'
<1>1. ~Flush /\ LoadUse
  BY BubbleIs, NopIs DEF Stopped, Flush, LoadUse, Fetched
<1>2. Stall(CoreIn(Running))
  BY <1>1 DEF RunNext, Tick, Clock, Redirect, Advance
<1>3. de' = Bubble /\ fd'.inst = NOP
  BY <1>2 DEF Stall, FDNext, Stopped
<1>4. ~inFD' /\ ~inDE'
  BY <1>1 DEF RunNext, History, Stopped
<1> QED
  BY <1>3, <1>4 DEF Stopped

LEMMA StraightStep ==
  ASSUME IsaInv, RunNext, Straight, ~Flush
  PROVE  Straight'
<1>1. /\ Tick(Running) /\ PackageTypeOK /\ imem' = imem
      /\ \A p : Instr(p)' = Instr(p)
      /\ pc' = Add(pc, 4)
  BY RunningBasics
<1>2. ~LoadUse
  <2>1. CASE inFD
    BY <2>1, NeverStalls
  <2>2. CASE ~inFD
    BY <2>2 DEF Straight, LoadUse
  <2> QED
    BY <2>1, <2>2
<1>3. Advance(CoreIn(Running))
  BY <1>1, <1>2 DEF Tick, Clock, Redirect, Stall
<1>4. fd'.inst = imem[IIndex(pc)] /\ fd'.pc = pc
  BY <1>3 DEF Advance, FDNext, CoreIn, Running
<1>5. de' = Decoded
  BY <1>3 DEF Advance
<1>6. inFD' /\ (inDE' <=> inFD) /\ inEM' = inDE
  BY <1>2 DEF RunNext, History, IsaInv
<1>7. /\ em'.control = de.control /\ em'.addrD = de.addrD /\ em'.pc = de.pc
      /\ mw'.control = em.control /\ mw'.addrD = em.addrD /\ mw'.pc = em.pc
  BY <1>1, RunningBackEnd
<1>8. /\ inEM => inDE
      /\ inDE => inFD
      /\ inFD => fd.inst = imem[IIndex(fd.pc)] /\ pc = Add(fd.pc, 4)
      /\ ~inFD => fd.inst = NOP
      /\ inDE => fd.pc = Add(de.pc, 4) /\ InEX(Instr(de.pc))
      /\ ~inDE => de.addrD = 0
      /\ inEM => de.pc = Add(em.pc, 4)
      /\ ~inEM => em.addrD = 0
  BY DEF Straight
<1>9. fd'.inst = imem'[IIndex(fd'.pc)] /\ pc' = Add(fd'.pc, 4)
  BY <1>1, <1>4
<1>10. inDE' => fd'.pc = Add(de'.pc, 4) /\ InEX(Instr(de.pc))'
  <2> SUFFICES ASSUME inFD PROVE fd'.pc = Add(de'.pc, 4) /\ InEX(Instr(de.pc))'
    BY <1>6
  <2>1. de'.pc = fd.pc
    BY <1>5 DEF Decoded
  <2> DEFINE i == Instr(fd.pc)
  <2>2. i \in Instruction
    BY <1>1, CountersType
  <2>3. \A j : (Instr(de.pc))' = j <=> i = j
    BY <1>1, <2>1
  <2> HIDE DEF i
  <2>4. ASSUME NEW j \in Instruction, j = i PROVE InEX(j)'
    BY <1>1, <2>4, ToEX DEF i
  <2>5. InEX(Instr(de.pc))'
    BY <2>2, <2>3, <2>4
  <2> QED
    BY <1>4, <1>8, <2>1, <2>5
<1>11. ~inDE' => /\ ~de'.control.PCSel /\ ~de'.control.MemRW
                 /\ de'.control.WBSel = "ALU" /\ de'.addrD = 0
  <2> SUFFICES ASSUME ~inFD
               PROVE  /\ ~de'.control.PCSel /\ ~de'.control.MemRW
                      /\ de'.control.WBSel = "ALU" /\ de'.addrD = 0
    BY <1>6
  <2>1. Fetched = Decode[NOP]
    BY <1>8 DEF Fetched
  <2>2. Signals(Fetched).BrType = "XX"
    BY <2>1, NopIs, JumpsOnlyLink
  <2>3. ~BrTaken /\ BrTaken \in BOOLEAN
    BY <2>2 DEF BrTaken, BranchTaken
  <2>4. de'.control = ControlOut(Fetched, BrTaken) /\ de'.addrD = Fetched.rd
    BY <1>5 DEF Decoded
  <2> HIDE DEF BrTaken
  <2> QED
    BY <2>1, <2>3, <2>4, NopIs, SignalsOf
<1>12. ~em'.control.PCSel
  BY <1>7 DEF Flush
<1>13. IF inEM' THEN de'.pc = Add(em'.pc, 4) ELSE em'.addrD = 0
  <2>1. inDE => de'.pc = fd.pc
    BY <1>5 DEF Decoded
  <2> QED
    BY <1>6, <1>7, <1>8, <2>1
<1>14. mw'.addrD # 0 => /\ inEM' /\ em'.pc = Add(mw'.pc, 4)
                        /\ mw'.addrD = (Instr(mw.pc)').rd
                        /\ mw'.control.RegWEn = Signals(Instr(mw.pc)').RegWEn
  <2> SUFFICES ASSUME em.addrD # 0
               PROVE  /\ inEM' /\ em'.pc = Add(mw'.pc, 4)
                      /\ mw'.addrD = (Instr(mw.pc)').rd
                      /\ mw'.control.RegWEn = Signals(Instr(mw.pc)').RegWEn
    BY <1>7
  <2>1. inEM /\ inDE
    BY <1>8
  <2> DEFINE i == Instr(em.pc)
  <2>2. (Instr(mw.pc))' = i
    BY <1>1, <1>7
  <2>3. em.control = Selected(i, AbsRegs) /\ em.addrD = i.rd
    BY <2>1 DEF IsaInv, InMEM
  <2> HIDE DEF i
  <2>4. em.control.RegWEn = Signals(i).RegWEn
    BY <2>3, SelectedIs, SignalsOf
  <2> QED
    BY <1>6, <1>7, <1>8, <2>1, <2>2, <2>3, <2>4
<1>15. nextPc' = IF inEM' THEN em'.pc ELSE IF inDE' THEN de'.pc ELSE IF inFD' THEN fd'.pc ELSE pc'
  <2>1. CASE inDE
    BY <1>6, <1>7, <2>1, NextPcStep
  <2>2. CASE ~inDE
    <3>1. nextPc' = nextPc /\ nextPc = IF inFD THEN fd.pc ELSE pc
      BY <1>8, <2>2, NextPcStep DEF Straight
    <3>2. de'.pc = fd.pc
      BY <1>5 DEF Decoded
    <3> QED
      BY <1>4, <1>6, <2>2, <3>1, <3>2
  <2> QED
    BY <2>1, <2>2
<1>16. (inEM' => inDE') /\ (inDE' => inFD')
  BY <1>6, <1>8
<1> QED
  BY <1>6, <1>9, <1>10, <1>11, <1>12, <1>13, <1>14, <1>15, <1>16 DEF Straight

LEMMA IsaInvInit == HazardFreeInit => IsaInv
<1> SUFFICES ASSUME HazardFreeInit PROVE IsaInv
  OBVIOUS
<1>1. PackageInit /\ HazardFree(imem) /\ ~inFD /\ ~inDE /\ ~inEM /\ nextPc = 0
      /\ inFD \in BOOLEAN /\ inDE \in BOOLEAN /\ inEM \in BOOLEAN
  BY DEF HazardFreeInit, RunInit
<1>2. PackageTypeOK /\ nextPc \in Word
  BY <1>1, PackageTypeInit DEF PackageTypeOK, CoreTypeOK, PackageInit, CoreInit
<1>3. ~dbg.idMode /\ ~dbg.ddMode
  BY <1>1 DEF PackageInit, DebugInit, DebugReset
<1>4. regs[0] = 0
  BY <1>1, DecodeAssumption DEF PackageInit, CoreInit, RegIdx
<1>5. /\ em.control = de.control /\ em.addrD = 0 /\ mw.addrD = 0 /\ pc = 0
      /\ fd.inst = NOP /\ (de = Bubble \/ de = NopDE)
  BY <1>1 DEF PackageInit, CoreInit
<1>6. ~em.control.MemRW /\ (Straight \/ Stopped)
  <2>1. CASE de = Bubble
    BY <1>1, <1>5, <2>1, BubbleIs DEF Stopped
  <2>2. CASE de = NopDE
    <3>1. de.control = Signals(Decode[NOP]) /\ de.addrD = 0
      BY <2>2 DEF NopDE, Bubble
    <3> QED
      BY <1>1, <1>5, <3>1, NopIs DEF Straight
  <2> QED
    BY <1>5, <2>1, <2>2
<1> QED
  BY <1>1, <1>2, <1>3, <1>4, <1>5, <1>6 DEF IsaInv

LEMMA RunStep ==
  ASSUME IsaInv, RunNext
  PROVE  IsaInv'
<1>1. /\ Tick(Running) /\ PackageTypeOK /\ PackageTypeOK'
      /\ ~dbg'.idMode /\ ~dbg'.ddMode /\ imem' = imem
  BY RunningBasics
<1>2. inFD' \in BOOLEAN /\ inDE' \in BOOLEAN /\ inEM' \in BOOLEAN
  BY DEF RunNext, History, IsaInv
<1>3. nextPc' \in Word
  <2>1. em.alu \in Word /\ em.pc \in Word /\ 4 \in Int
    BY <1>1 DEF PackageTypeOK, CoreTypeOK, EM
  <2>2. Add(em.pc, 4) \in Word
    BY <2>1, NextIndex
  <2>3. nextPc' = IF ~inEM THEN nextPc ELSE IF em.control.PCSel THEN em.alu ELSE Add(em.pc, 4)
    BY DEF RunNext, History
  <2> QED
    BY <2>1, <2>2, <2>3 DEF IsaInv
<1>4. regs'[0] = 0
  <2>1. regs' = AbsRegs
    BY <1>1, RegsNextIsAbs
  <2>2. 0 \in RegIdx
    BY DecodeAssumption DEF RegIdx
  <2> QED
    BY <2>1, <2>2 DEF AbsRegs, IsaInv
<1>5. HazardFree(imem')
  BY <1>1 DEF IsaInv
<1>6. IF inEM' THEN InMEM(Instr(em.pc))'
      ELSE ~em'.control.MemRW /\ (em'.control.RegWEn => em'.addrD = 0)
  BY MemStep
<1>7. Straight' \/ Stopped'
  <2>1. CASE Flush
    BY <2>1, FlushStops
  <2>2. CASE ~Flush /\ Straight
    BY <2>2, StraightStep
  <2>3. CASE Stopped
    BY <2>3, StoppedStays
  <2> QED
    BY <2>1, <2>2, <2>3 DEF IsaInv
<1> QED
  BY <1>1, <1>2, <1>3, <1>4, <1>5, <1>6, <1>7 DEF IsaInv

LEMMA IsaInvStep == IsaInv /\ [RunNext]_<<package, history>> => IsaInv'
<1> SUFFICES ASSUME IsaInv, [RunNext]_<<package, history>> PROVE IsaInv'
  OBVIOUS
<1>1. CASE RunNext
  BY <1>1, RunStep
<1>2. CASE UNCHANGED <<package, history>>
  <2>1. /\ pc' = pc /\ regs' = regs /\ fd' = fd /\ de' = de /\ em' = em /\ mw' = mw
        /\ stepPrev' = stepPrev /\ dbg' = dbg /\ imem' = imem /\ dmem' = dmem
        /\ inFD' = inFD /\ inDE' = inDE /\ inEM' = inEM /\ nextPc' = nextPc
    BY <1>2 DEF package, core, history
  <2>2. PackageTypeOK'
    BY <2>1 DEF IsaInv, PackageTypeOK, CoreTypeOK, DebugTypeOK
  <2>3. Wb' = Wb /\ Result' = Result /\ OperandA' = OperandA /\ OperandB' = OperandB
    BY <2>1 DEF Wb, Result, OperandA, OperandB, Forward
  <2>4. AbsRegs' = AbsRegs
    BY <2>1, <2>3 DEF AbsRegs
  <2>5. After' = After
    BY <2>1, <2>3, <2>4 DEF After, WritesReg
  <2>6. \A p : Instr(p)' = Instr(p)
    BY <2>1 DEF Instr
  <2>7. /\ (Instr(em.pc))' = Instr(em.pc) /\ (Instr(de.pc))' = Instr(de.pc)
        /\ (Instr(mw.pc))' = Instr(mw.pc)
    BY <2>1, <2>6
  <2>8. InMEM(Instr(em.pc))' <=> InMEM(Instr(em.pc))
    BY <2>1, <2>4, <2>7 DEF InMEM
  <2>9. InEX(Instr(de.pc))' <=> InEX(Instr(de.pc))
    BY <2>1, <2>3, <2>5, <2>7 DEF InEX
  <2>10. Straight' <=> Straight
    BY <2>1, <2>7, <2>9 DEF Straight
  <2>11. Stopped' <=> Stopped
    BY <2>1 DEF Stopped
  <2> QED
    BY <2>1, <2>2, <2>8, <2>10, <2>11 DEF IsaInv
<1> QED
  BY <1>1, <1>2

-----------------------------------------------------------------------------
(***************************************************************************)
(* The ISA's operators are the pipeline's.                                 *)
(***************************************************************************)
LEMMA SameWords ==
  /\ \A a, b : ISA!Add(a, b) = Add(a, b)
  /\ \A a, b : ISA!Sub(a, b) = Sub(a, b)
  /\ ISA!RegIdx = RegIdx /\ ISA!IMem = IMem /\ ISA!DMem = DMem
  /\ \A a : ISA!IIndex(a) = IIndex(a)
BY DEF ISA!Add, Add, ISA!Sub, Sub, ISA!WordMod, WordMod, ISA!RegIdx, RegIdx, ISA!IMem, IMem,
   ISA!DMem, DMem, ISA!Word, Word, ISA!Cell, Cell, ISA!Byte, Byte, ISA!ByteMod, ByteMod,
   ISA!IIndex, IIndex

LEMMA SameAlu ==
  /\ \A sel, a, b : ISA!Alu(sel, a, b) = Alu(sel, a, b)
  /\ \A t, a, b : ISA!BranchTaken(t, a, b) <=> BranchTaken(t, a, b)
<1>1. ASSUME NEW sel, NEW a, NEW b PROVE ISA!Alu(sel, a, b) = Alu(sel, a, b)
  BY DEF ISA!Alu, Alu, ISA!BitByBit, BitByBit, ISA!MapThenSumSet, MapThenSumSet,
     ISA!MapThenFoldSet, MapThenFoldSet, ISA!Add, Add, ISA!Sub, Sub, ISA!WordMod, WordMod,
     ISA!Shamt, Shamt, ISA!Flag, Flag, ISA!Signed, Signed, ISA!Unsigned, Unsigned, ISA!Bit, Bit
<1>2. ASSUME NEW t, NEW a, NEW b PROVE ISA!BranchTaken(t, a, b) <=> BranchTaken(t, a, b)
  BY DEF ISA!BranchTaken, BranchTaken, ISA!Signed, Signed, ISA!WordMod, WordMod
<1> QED
  BY <1>1, <1>2

LEMMA SamePlaces ==
  /\ \A a : ISA!DIndex(a) = DIndex(a) /\ ISA!Subword(a) = Subword(a)
  /\ \A w : ISA!ToCell(w) = ToCell(w) /\ \A c : ISA!ToWord(c) = ToWord(c)
  /\ \A l, s : ISA!WriteMask(l, s) = WriteMask(l, s)
  /\ \A l, w : ISA!Lanes(l, w) = Lanes(l, w)
  /\ \A s, n, m : ISA!Extend(s, n, m) = Extend(s, n, m)
<1>1. ISA!ByteMod = ByteMod /\ ISA!WordMod = WordMod
  BY DEF ISA!ByteMod, ByteMod, ISA!WordMod, WordMod
<1>2. \A a, b : ISA!Sub(a, b) = Sub(a, b)
  BY SameWords
<1>3. \A a : ISA!DIndex(a) = DIndex(a) /\ ISA!Subword(a) = Subword(a)
  BY <1>2 DEF ISA!DIndex, DIndex, ISA!Subword, Subword
<1>4. \A k : ISA!Place(k) = Place(k)
  BY <1>1 DEF ISA!Place, Place
<1>5. \A w : ISA!ToCell(w) = ToCell(w)
  BY <1>1, <1>4 DEF ISA!ToCell, ToCell
<1>6. \A c : ISA!ToWord(c) = ToWord(c)
  BY <1>1 DEF ISA!ToWord, ToWord
<1>7. \A l, s : ISA!WriteMask(l, s) = WriteMask(l, s)
  BY DEF ISA!WriteMask, WriteMask
<1>8. \A l, w : ISA!Lanes(l, w) = Lanes(l, w)
  BY <1>5 DEF ISA!Lanes, Lanes
<1>9. \A s, n, m : ISA!Extend(s, n, m) = Extend(s, n, m)
  BY <1>1 DEF ISA!Extend, Extend, ISA!Unsigned, Unsigned
<1> QED
  BY <1>3, <1>5, <1>6, <1>7, <1>8, <1>9

LEMMA SameAccess ==
  /\ \A m, a, l, s : ISA!DMemRead(m, a, l, s) = DMemRead(m, a, l, s)
  /\ \A m, a, l, w : ISA!DMemWrite(m, a, l, w) = DMemWrite(m, a, l, w)
<1>1. ISA!ByteMod = ByteMod
  BY DEF ISA!ByteMod, ByteMod
<1>2. ASSUME NEW m, NEW a, NEW l, NEW s PROVE ISA!DMemRead(m, a, l, s) = DMemRead(m, a, l, s)
  BY <1>1, SamePlaces DEF ISA!DMemRead, DMemRead
<1>3. ASSUME NEW m, NEW a, NEW l, NEW w PROVE ISA!DMemWrite(m, a, l, w) = DMemWrite(m, a, l, w)
  BY SamePlaces DEF ISA!DMemWrite, DMemWrite
<1> QED
  BY <1>2, <1>3

-----------------------------------------------------------------------------
(***************************************************************************)
(* A clock executes the instruction in MEM.                                *)
(***************************************************************************)
\* What the clock does, in terms of the row of the instruction.
Executes(i) ==
  /\ imem' = imem
  /\ AbsRegs' = IF Signals(i).RegWEn /\ i.rd # 0 THEN [AbsRegs EXCEPT ![i.rd] = Result] ELSE AbsRegs
  /\ Signals(i).WBSel = "DM"  => Result = DMemRead(dmem, em.alu, Signals(i).MemLength, Signals(i).MemSign)
  /\ Signals(i).WBSel = "ALU" => Result = em.alu
  /\ Signals(i).WBSel = "PC4" => Result = Add(nextPc, 4)
  /\ nextPc' = IF \/ BranchTaken(Signals(i).BrType, AbsRegs[i.rs1], AbsRegs[i.rs2])
                  \/ i.class \in {"JAL", "JALR"}
               THEN em.alu ELSE Add(nextPc, 4)
  /\ dmem' = IF Signals(i).MemRW /\ em.alu >= DMemBase /\ em.alu < IOBase
             THEN DMemWrite(dmem, em.alu, Signals(i).MemLength, em.dataB) ELSE dmem

LEMMA ClockExecutes ==
  ASSUME IsaInv, RunNext, inEM, NEW i \in Instruction, i = Instr(em.pc)
  PROVE  Executes(i)
<1>1. /\ Tick(Running) /\ PackageTypeOK /\ imem' = imem
  BY RunningBasics
<1>2. InMEM(i)
  BY DEF IsaInv
<1>3. PICK t \in BOOLEAN : /\ Selected(i, AbsRegs) = ControlOut(i, t)
                           /\ t <=> BranchTaken(Signals(i).BrType, AbsRegs[i.rs1], AbsRegs[i.rs2])
  BY SelectedIs
<1>4. em.control = ControlOut(i, t) /\ em.addrD = i.rd /\ nextPc = em.pc
  BY <1>2, <1>3 DEF InMEM
<1>5. /\ em.control.RegWEn = Signals(i).RegWEn
      /\ em.control.WBSel = Signals(i).WBSel
      /\ em.control.MemRW = Signals(i).MemRW
      /\ em.control.MemLength = Signals(i).MemLength
      /\ em.control.MemSign = Signals(i).MemSign
      /\ em.control.PCSel <=> (t \/ i.class \in {"JAL", "JALR"})
  BY <1>4, SignalsOf
<1>6. AbsRegs' = IF Signals(i).RegWEn /\ i.rd # 0 THEN [AbsRegs EXCEPT ![i.rd] = Result] ELSE AbsRegs
  <2>1. AbsRegs' = [r \in RegIdx |-> IF em.control.RegWEn /\ r # 0 /\ em.addrD = r
                                     THEN Result ELSE AbsRegs[r]]
    BY <1>1, AfterStep DEF After, WritesReg
  <2>2. AbsRegs \in [RegIdx -> Word] /\ i.rd \in RegIdx
    BY <1>1, AbsType DEF Instruction
  <2> DEFINE x == AbsRegs
             y == AbsRegs'
             v == Result
  <2>3. /\ y = [r \in RegIdx |-> IF em.control.RegWEn /\ r # 0 /\ em.addrD = r THEN v ELSE x[r]]
        /\ x \in [RegIdx -> Word]
    BY <2>1, <2>2
  <2> HIDE DEF x, y, v
  <2>4. CASE Signals(i).RegWEn /\ i.rd # 0
    <3>1. y = [x EXCEPT ![i.rd] = v]
      BY <1>4, <1>5, <2>2, <2>3, <2>4
    <3> QED
      BY <2>4, <3>1 DEF x, y, v
  <2>5. CASE ~(Signals(i).RegWEn /\ i.rd # 0)
    <3>1. y = x
      BY <1>4, <1>5, <2>2, <2>3, <2>5
    <3> QED
      BY <2>5, <3>1 DEF x, y, v
  <2> QED
    BY <2>4, <2>5
<1>7. /\ Signals(i).WBSel = "DM"
           => Result = DMemRead(dmem, em.alu, Signals(i).MemLength, Signals(i).MemSign)
      /\ Signals(i).WBSel = "ALU" => Result = em.alu
      /\ Signals(i).WBSel = "PC4" => Result = Add(nextPc, 4)
  BY <1>4, <1>5 DEF Result
<1>8. nextPc' = IF \/ BranchTaken(Signals(i).BrType, AbsRegs[i.rs1], AbsRegs[i.rs2])
                   \/ i.class \in {"JAL", "JALR"}
                THEN em.alu ELSE Add(nextPc, 4)
  <2>1. nextPc' = IF em.control.PCSel THEN em.alu ELSE Add(nextPc, 4)
    BY <1>4 DEF RunNext, History
  <2> QED
    BY <1>3, <1>5, <2>1
<1>9. dmem' = IF Signals(i).MemRW /\ em.alu >= DMemBase /\ em.alu < IOBase
              THEN DMemWrite(dmem, em.alu, Signals(i).MemLength, em.dataB) ELSE dmem
  <2>1. dbg \in Debug /\ ~dbg.idMode /\ ~dbg.ddMode
    BY DEF IsaInv, PackageTypeOK, DebugTypeOK
  <2>2. dmem' = IF CoreStores
                THEN DMemWrite(dmem, em.alu, em.control.MemLength, em.dataB) ELSE dmem
    BY <1>1, <2>1, RunningTick
  <2> QED
    BY <1>5, <2>2 DEF CoreStores
<1> QED
  BY <1>1, <1>6, <1>7, <1>8, <1>9 DEF Executes

\* The two functions of the ALU that addresses and constants go through.
LEMMA AluPasses ==
  ASSUME NEW a \in Word, NEW b \in Word
  PROVE  Alu("ADD", a, b) = Add(a, b) /\ Alu("COPY_B", a, b) = b
<1>1. a \in Int /\ b \in 0 .. (WordMod - 1) /\ WordMod \in Nat \ {0}
  BY WordAssumption DEF Word
<1>2. Alu("ADD", a, b) = Add(a, b) % WordMod
  BY Zenon DEF Alu
<1>3. Alu("COPY_B", a, b) = b % WordMod
  BY Zenon DEF Alu
<1> DEFINE M == WordMod
           c == a + b
<1>4. M \in Nat \ {0} /\ c \in Int
  BY <1>1
<1>5. Add(a, b) = c % M
  BY DEF Add
<1> HIDE DEF M, c
<1>6. (c % M) % M = c % M
  BY <1>4
<1>7. b % M = b
  BY <1>1 DEF M
<1> QED
  BY <1>2, <1>3, <1>5, <1>6, <1>7 DEF M

\* With its row filled in, the instruction does what the ISA says.
LEMMA ExecutesISA ==
  ASSUME NEW i \in Instruction, Executes(i), i = Instr(nextPc), nextPc = em.pc, nextPc \in Word,
         AbsRegs \in [RegIdx -> Word],
         i.class # "UNKNOWN" => em.alu = Computed(i, nextPc, AbsRegs),
         i.class = "STORE" => em.dataB = AbsRegs[i.rs2]
  PROVE  ISA!Next
<1> DEFINE a == AbsRegs[i.rs1]
           b == AbsRegs[i.rs2]
<1>1. ISA!Current = i /\ ISA!Rs1 = a /\ ISA!Rs2 = b
  BY SameWords DEF ISA!Current, ISA!Rs1, ISA!Rs2, Instr
<1>2. ISA!EffAddr = Add(a, i.imm)
  BY <1>1, SameWords DEF ISA!EffAddr
<1>3. a \in Word /\ b \in Word /\ i.imm \in Word
  BY DEF Instruction
<1>4. /\ Alu("ADD", a, i.imm) = Add(a, i.imm)
      /\ Alu("ADD", nextPc, i.imm) = Add(nextPc, i.imm)
      /\ Alu("COPY_B", nextPc, i.imm) = i.imm
  BY <1>3, AluPasses
<1>5. i.class # "UNKNOWN" =>
        em.alu = Alu(Signals(i).ALUSel,
                     IF Signals(i).ASel = "PC" THEN nextPc ELSE a,
                     IF Signals(i).BSel = "IMM" THEN i.imm ELSE b)
  BY DEF Computed
<1>6. /\ imem' = imem
      /\ AbsRegs' = IF Signals(i).RegWEn /\ i.rd # 0
                    THEN [AbsRegs EXCEPT ![i.rd] = Result] ELSE AbsRegs
      /\ nextPc' = IF BranchTaken(Signals(i).BrType, a, b) \/ i.class \in {"JAL", "JALR"}
                   THEN em.alu ELSE Add(nextPc, 4)
      /\ dmem' = IF Signals(i).MemRW /\ em.alu >= DMemBase /\ em.alu < IOBase
                 THEN DMemWrite(dmem, em.alu, Signals(i).MemLength, em.dataB) ELSE dmem
  BY DEF Executes
<1>7. i.class # "STORE" => dmem' = dmem
  BY <1>6 DEF Signals
<1>8. i.class \notin {"BRANCH", "JAL", "JALR"} => nextPc' = Add(nextPc, 4)
  <2>1. ASSUME i.class # "BRANCH" PROVE ~BranchTaken(Signals(i).BrType, a, b)
    BY <2>1, JumpsOnlyLink DEF BranchTaken
  <2> QED
    BY <1>6, <2>1
<1>9. ASSUME i.class \notin {"BRANCH", "STORE", "UNKNOWN"}, NEW v, Result = v PROVE ISA!WriteRd(v)
  <2>1. Signals(i).RegWEn
    BY <1>9 DEF Signals
  <2>2. AbsRegs' = IF i.rd = 0 THEN AbsRegs ELSE [AbsRegs EXCEPT ![i.rd] = v]
    BY <1>6, <1>9, <2>1
  <2> QED
    BY <1>1, <1>6, <1>7, <1>9, <2>2 DEF ISA!WriteRd
<1>10. i.class \in {"BRANCH", "STORE", "UNKNOWN"} => AbsRegs' = AbsRegs
  <2>1. i.class \in {"BRANCH", "STORE", "UNKNOWN"} => ~Signals(i).RegWEn
    BY DEF Signals
  <2> QED
    BY <1>6, <2>1
<1>11. \A v, w : ISA!Alu(v, a, w) = Alu(v, a, w) /\ ISA!Add(nextPc, i.imm) = Add(nextPc, i.imm)
  BY SameAlu, SameWords
<1>12. ISA!FallThrough <=> nextPc' = Add(nextPc, 4)
  BY SameWords DEF ISA!FallThrough
<1> HIDE DEF a, b
<1>13. CASE i.class = "OP"
  <2>1. Signals(i).ALUSel = i.alu /\ Signals(i).ASel = "RS1" /\ Signals(i).BSel = "RS2"
        /\ Signals(i).WBSel = "ALU"
    BY <1>13 DEF Signals
  <2>2. Result = Alu(i.alu, a, b)
    BY <1>5, <1>13, <2>1 DEF Executes
  <2> QED
    BY <1>1, <1>8, <1>9, <1>11, <1>12, <1>13, <2>2 DEF ISA!Next, ISA!Compute
<1>14. CASE i.class = "OPIMM"
  <2>1. Signals(i).ALUSel = i.alu /\ Signals(i).ASel = "RS1" /\ Signals(i).BSel = "IMM"
        /\ Signals(i).WBSel = "ALU"
    BY <1>14 DEF Signals
  <2>2. Result = Alu(i.alu, a, i.imm)
    BY <1>5, <1>14, <2>1 DEF Executes
  <2> QED
    BY <1>1, <1>8, <1>9, <1>11, <1>12, <1>14, <2>2 DEF ISA!Next, ISA!Compute
<1>15. CASE i.class = "LUI"
  <2>1. Signals(i).ALUSel = "COPY_B" /\ Signals(i).ASel = "PC" /\ Signals(i).BSel = "IMM"
        /\ Signals(i).WBSel = "ALU"
    BY <1>15 DEF Signals
  <2>2. Result = i.imm
    BY <1>4, <1>5, <1>15, <2>1 DEF Executes
  <2> QED
    BY <1>1, <1>8, <1>9, <1>12, <1>15, <2>2 DEF ISA!Next, ISA!Compute
<1>16. CASE i.class = "AUIPC"
  <2>1. Signals(i).ALUSel = "ADD" /\ Signals(i).ASel = "PC" /\ Signals(i).BSel = "IMM"
        /\ Signals(i).WBSel = "ALU"
    BY <1>16 DEF Signals
  <2>2. Result = Add(nextPc, i.imm)
    BY <1>4, <1>5, <1>16, <2>1 DEF Executes
  <2> QED
    BY <1>1, <1>8, <1>9, <1>11, <1>12, <1>16, <2>2 DEF ISA!Next, ISA!Compute
<1>17. CASE i.class = "JAL"
  <2>1. Signals(i).ALUSel = "ADD" /\ Signals(i).ASel = "PC" /\ Signals(i).BSel = "IMM"
        /\ Signals(i).WBSel = "PC4"
    BY <1>17 DEF Signals
  <2>2. Result = Add(nextPc, 4) /\ nextPc' = Add(nextPc, i.imm)
    BY <1>4, <1>5, <1>6, <1>17, <2>1 DEF Executes
  <2> QED
    BY <1>1, <1>9, <1>17, <2>2, SameWords DEF ISA!Next, ISA!Link, ISA!Jump
<1>18. CASE i.class = "JALR"
  <2>1. Signals(i).ALUSel = "ADD" /\ Signals(i).ASel = "RS1" /\ Signals(i).BSel = "IMM"
        /\ Signals(i).WBSel = "PC4"
    BY <1>18 DEF Signals
  <2>2. Result = Add(nextPc, 4) /\ nextPc' = Add(a, i.imm)
    BY <1>4, <1>5, <1>6, <1>18, <2>1 DEF Executes
  <2> QED
    BY <1>1, <1>2, <1>9, <1>18, <2>2, SameWords DEF ISA!Next, ISA!Link, ISA!Jump
<1>19. CASE i.class = "BRANCH"
  <2>1. Signals(i).ALUSel = "ADD" /\ Signals(i).ASel = "PC" /\ Signals(i).BSel = "IMM"
        /\ Signals(i).BrType = i.branch
    BY <1>19 DEF Signals
  <2>2. em.alu = Add(nextPc, i.imm)
    BY <1>4, <1>5, <1>19, <2>1
  <2>3. nextPc' = IF BranchTaken(i.branch, a, b) THEN Add(nextPc, i.imm) ELSE Add(nextPc, 4)
    BY <1>6, <1>19, <2>1, <2>2
  <2>4. ISA!BranchTaken(i.branch, a, b) <=> BranchTaken(i.branch, a, b)
    BY SameAlu
  <2>5. ISA!Branch
    BY <1>1, <1>6, <1>7, <1>10, <1>11, <1>12, <1>19, <2>3, <2>4 DEF ISA!Branch, ISA!Jump
  <2> QED
    BY <2>5 DEF ISA!Next
<1>20. CASE i.class = "LOAD"
  <2>1. Signals(i).ALUSel = "ADD" /\ Signals(i).ASel = "RS1" /\ Signals(i).BSel = "IMM"
        /\ Signals(i).WBSel = "DM" /\ Signals(i).MemLength = i.length /\ Signals(i).MemSign = i.sign
    BY <1>20 DEF Signals
  <2>2. em.alu = Add(a, i.imm)
    BY <1>4, <1>5, <1>20, <2>1
  <2>3. Result = DMemRead(dmem, Add(a, i.imm), i.length, i.sign)
    BY <2>1, <2>2 DEF Executes
  <2> QED
    BY <1>1, <1>2, <1>8, <1>9, <1>12, <1>20, <2>3, SameAccess DEF ISA!Next, ISA!Load
<1>21. CASE i.class = "STORE"
  <2>1. Signals(i).ALUSel = "ADD" /\ Signals(i).ASel = "RS1" /\ Signals(i).BSel = "IMM"
        /\ Signals(i).MemRW /\ Signals(i).MemLength = i.length
    BY <1>21 DEF Signals
  <2>2. em.alu = Add(a, i.imm) /\ em.dataB = b
    BY <1>4, <1>5, <1>21, <2>1 DEF b
  <2>3. dmem' = IF Add(a, i.imm) >= DMemBase /\ Add(a, i.imm) < IOBase
                THEN DMemWrite(dmem, Add(a, i.imm), i.length, b) ELSE dmem
    BY <1>6, <2>1, <2>2
  <2> QED
    BY <1>1, <1>2, <1>6, <1>8, <1>10, <1>12, <1>21, <2>3, SameAccess DEF ISA!Next, ISA!Store
<1>22. CASE i.class = "UNKNOWN"
  BY <1>1, <1>6, <1>7, <1>8, <1>10, <1>12, <1>22 DEF ISA!Next, ISA!Skip
<1> QED
  BY <1>13, <1>14, <1>15, <1>16, <1>17, <1>18, <1>19, <1>20, <1>21, <1>22
     DEF Instruction, Classes

-----------------------------------------------------------------------------
LEMMA RefinesInit == HazardFreeInit => ISA!Init
<1> SUFFICES ASSUME HazardFreeInit PROVE ISA!Init
  OBVIOUS
<1>1. PackageInit /\ nextPc = 0
  BY DEF HazardFreeInit, RunInit
<1>2. imem \in IMem /\ dmem \in DMem
  BY <1>1, PackageAssumption DEF PackageInit
<1>3. regs = [r \in RegIdx |-> 0] /\ mw.addrD = 0
  BY <1>1 DEF PackageInit, CoreInit
<1>4. AbsRegs = [r \in RegIdx |-> 0]
  BY <1>3 DEF AbsRegs
<1> QED
  BY <1>1, <1>2, <1>4, SameWords DEF ISA!Init

LEMMA RefinesStep ==
  IsaInv /\ [RunNext]_<<package, history>> => [ISA!Next]_(ISA!isa)
<1> SUFFICES ASSUME IsaInv, [RunNext]_<<package, history>> PROVE [ISA!Next]_(ISA!isa)
  OBVIOUS
<1>1. PackageTypeOK /\ nextPc \in Word
  BY DEF IsaInv
<1>2. CASE RunNext /\ inEM
  <2> DEFINE i == Instr(em.pc)
  <2>1. i \in Instruction /\ AbsRegs \in [RegIdx -> Word]
    BY <1>1, CountersType, AbsType
  <2>2. InMEM(i)
    BY <1>2 DEF IsaInv
  <2>3. ASSUME NEW j \in Instruction, j = i PROVE Executes(j)
    BY <1>2, <2>3, ClockExecutes
  <2>4. i = Instr(nextPc) /\ nextPc = em.pc
    BY <2>2 DEF InMEM
  <2> HIDE DEF i
  <2>5. /\ i.class # "UNKNOWN" => em.alu = Computed(i, nextPc, AbsRegs)
        /\ i.class = "STORE" => em.dataB = AbsRegs[i.rs2]
    BY <2>2, <2>4 DEF InMEM
  <2>6. Executes(i)
    BY <2>1, <2>3
  <2> QED
    BY <1>1, <2>1, <2>4, <2>5, <2>6, ExecutesISA
<1>3. CASE RunNext /\ ~inEM
  <2>1. nextPc' = nextPc
    BY <1>3 DEF RunNext, History
  <2>2. imem' = imem /\ Tick(Running)
    BY <1>3, RunningBasics
  <2>3. ~em.control.MemRW /\ \A r : ~WritesReg(em, r)
    BY <1>3 DEF IsaInv, WritesReg
  <2>4. AbsRegs' = AbsRegs
    <3>1. AbsRegs' = After /\ AbsRegs \in [RegIdx -> Word]
      BY <1>1, <2>2, AfterStep, AbsType
    <3>2. After = [r \in RegIdx |-> AbsRegs[r]]
      BY <2>3 DEF After
    <3> HIDE DEF AbsRegs
    <3> QED
      BY <3>1, <3>2
  <2>5. dmem' = dmem
    <3>1. dbg \in Debug /\ ~dbg.idMode /\ ~dbg.ddMode
      BY DEF IsaInv, PackageTypeOK, DebugTypeOK
    <3> QED
      BY <2>2, <2>3, <3>1, RunningTick DEF CoreStores
  <2> QED
    BY <2>1, <2>2, <2>4, <2>5 DEF ISA!isa
<1>4. CASE UNCHANGED <<package, history>>
  BY <1>4 DEF package, core, history, ISA!isa, AbsRegs, Wb
<1> QED
  BY <1>2, <1>3, <1>4

(***************************************************************************)
(* A program free of hazards, run with the host away, is executed as the   *)
(* ISA says from the start to its first jump: each clock of the five       *)
(* stages is one instruction or none (Core.scala:65-158).                  *)
(***************************************************************************)
THEOREM PipelineImplementsISA == RunSpec => ImplementsISA
<1>1. RunSpec => []IsaInv
  BY IsaInvInit, IsaInvStep, PTL DEF RunSpec
<1>2. RunSpec => ISA!Init
  BY RefinesInit DEF RunSpec
<1>3. RunSpec /\ []IsaInv => [][ISA!Next]_(ISA!isa)
  BY RefinesStep, PTL DEF RunSpec
<1> QED
  BY <1>1, <1>2, <1>3, PTL DEF ImplementsISA, ISA!Spec

=============================================================================
