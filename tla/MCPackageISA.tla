---------------------------- MODULE MCPackageISA ----------------------------
(***************************************************************************)
(* PackageISA with words of four bits (so bytes of one), registers x0 to   *)
(* x3, four words of program and two cells of data at 4 .. 11; below is    *)
(* nothing and above is the I/O range.  The programs are all the sequences *)
(* of four codes, of which there are sixteen.                              *)
(***************************************************************************)
EXTENDS PackageISA, Sequences

Ins(class, rd, rs1, rs2, imm) ==
  [class |-> class, alu |-> "ADD", branch |-> "XX", length |-> "X",
   sign |-> "U", rd |-> rd, rs1 |-> rs1, rs2 |-> rs2, imm |-> imm]

Access(class, length, sign, rd, rs1, rs2, imm) ==
  [Ins(class, rd, rs1, rs2, imm) EXCEPT !.length = length, !.sign = sign]

MCCodes ==
  << Ins("OPIMM", 0, 0, 0, 0),                      \* nop
     Ins("OPIMM", 1, 1, 1, 5),                      \* addi x1,x1,5
     Ins("OPIMM", 2, 0, 0, 4),                      \* addi x2,x0,4
     [Ins("OP", 3, 1, 2, 0) EXCEPT !.alu = "SUB"],  \* sub x3,x1,x2
     [Ins("OPIMM", 2, 3, 1, 1) EXCEPT !.alu = "SRA"],    \* srai x2,x3,1
     Access("LOAD", "W", "S", 2, 1, 0, 0),          \* lw x2,0(x1)
     Access("LOAD", "B", "S", 3, 1, 1, 1),          \* lb x3,1(x1)
     Access("STORE", "W", "U", 2, 1, 1, 2),         \* sw x1,2(x1)
     Access("STORE", "H", "U", 3, 1, 2, 3),         \* sh x2,3(x1)
     Ins("JAL", 1, 0, 0, 8),                        \* jal x1,.+8
     Ins("JALR", 2, 3, 0, 4),                       \* jalr x2,4(x3)
     [Ins("BRANCH", 0, 1, 2, 8) EXCEPT !.branch = "GE"],  \* bge x1,x2,.+8
     [Ins("BRANCH", 1, 2, 3, 4) EXCEPT !.branch = "LTU"], \* bltu x2,x3,.+4
     Ins("LUI", 3, 0, 0, 12),                       \* lui x3
     Ins("AUIPC", 2, 0, 0, 12),                     \* auipc x2
     Ins("UNKNOWN", 1, 0, 0, 0) >>                  \* no instruction

MCDecode == [w \in 0 .. 15 |-> MCCodes[w + 1]]

MCPrograms == [0 .. 3 -> 0 .. 15]

\* One image: its first cell has the bits 1, 0, 0, 1, its second 0, 1, 1, 1.
MCData == {[c \in 0 .. 1 |-> [k \in 0 .. 3 |->
              IF c = 0 THEN IF k \in {0, 3} THEN 1 ELSE 0
                       ELSE IF k = 0 THEN 0 ELSE 1]]}

\* The shape of riscv.lst:42-45: a register is computed, then another, and
\* an instruction reads both, the later one as its second operand.
MCFragment == {[a \in 0 .. 3 |-> <<1, 2, 3, 0>>[a + 1]]}

\* The shape of riscv.lst:10: a jump, what is behind it, and what it jumps to.
MCJump == {[a \in 0 .. 3 |-> <<9, 0, 2, 0>>[a + 1]]}
=============================================================================
