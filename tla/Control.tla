------------------------------ MODULE Control ------------------------------
(***************************************************************************)
(* Instructions and the control unit (Control.scala, Instructions.scala).  *)
(*                                                                         *)
(* The instruction memory holds words; what the core extracts from a word  *)
(* (which BitPat of Instructions.scala it matches, its register fields and *)
(* the immediate ImmGen builds from it) is given by the constant Decode.   *)
(* The register fields are the raw bit fields 11..7, 19..15 and 24..20 of  *)
(* the word: they are there in every format, also where the format uses    *)
(* the bits for an immediate, and the hazard logic of the core reads them  *)
(* without asking for the format.                                          *)
(***************************************************************************)
EXTENDS ALU

CONSTANTS
  RegCount,   \* number of registers, 32 in the code
  Decode,     \* the instruction each word stands for
  NOP         \* the word of addi x0, x0, 0

RegIdx == 0 .. (RegCount - 1)

(***************************************************************************)
(* An instruction is named by its row group in the table of Control.scala  *)
(* and by what distinguishes the rows of a group: the ALU function of an   *)
(* arithmetic instruction, the comparison of a branch, the length and      *)
(* signedness of a memory access.  UNKNOWN matches no row.                 *)
(***************************************************************************)
Classes == {"OP", "OPIMM", "LUI", "AUIPC", "JAL", "JALR",
            "BRANCH", "LOAD", "STORE", "UNKNOWN"}

Lengths == {"X", "W", "H", "B"}
Signs   == {"U", "S"}

Instruction == [class : Classes, alu : AluOps, branch : BranchTypes,
                length : Lengths, sign : Signs,
                rd : RegIdx, rs1 : RegIdx, rs2 : RegIdx, imm : Word]

ASSUME DecodeAssumption ==
  /\ RegCount \in Nat \ {0}
  /\ Decode \in [Word -> Instruction]
  /\ NOP \in Word
  /\ Decode[NOP] = [class |-> "OPIMM", alu |-> "ADD", branch |-> "XX",
                    length |-> "X", sign |-> "U",
                    rd |-> 0, rs1 |-> 0, rs2 |-> 0, imm |-> 0]

-----------------------------------------------------------------------------

ControlSignals == [PCSel : BOOLEAN, RegWEn : BOOLEAN, BrType : BranchTypes,
                   BSel : {"RS2", "IMM"}, ASel : {"RS1", "PC"},
                   ALUSel : AluOps, MemRW : BOOLEAN,
                   WBSel : {"DM", "ALU", "PC4"},
                   MemLength : Lengths, MemSign : Signs]

\* The row ListLookup finds for an instruction.  The default row (UNKNOWN)
\* is the all-zero one: it reads memory and writes no register.
Signals(i) ==
  [PCSel     |-> i.class \in {"JAL", "JALR"},
   RegWEn    |-> i.class \notin {"BRANCH", "STORE", "UNKNOWN"},
   BrType    |-> IF i.class = "BRANCH" THEN i.branch ELSE "XX",
   BSel      |-> IF i.class \in {"OP", "UNKNOWN"} THEN "RS2" ELSE "IMM",
   ASel      |-> IF i.class \in {"AUIPC", "LUI", "JAL", "BRANCH"}
                 THEN "PC" ELSE "RS1",
   ALUSel    |-> CASE i.class \in {"OP", "OPIMM"} -> i.alu
                   [] i.class = "LUI"             -> "COPY_B"
                   [] OTHER                       -> "ADD",
   MemRW     |-> i.class = "STORE",
   WBSel     |-> CASE i.class \in {"LOAD", "UNKNOWN"} -> "DM"
                   [] i.class \in {"JAL", "JALR"}     -> "PC4"
                   [] OTHER                           -> "ALU",
   MemLength |-> IF i.class \in {"LOAD", "STORE"} THEN i.length ELSE "X",
   MemSign   |-> IF i.class = "LOAD" THEN i.sign ELSE "U"]

\* 0.U.asTypeOf(controlSignals), what a flush or a stall loads.
ZeroSignals ==
  [PCSel |-> FALSE, RegWEn |-> FALSE, BrType |-> "XX", BSel |-> "RS2",
   ASel |-> "RS1", ALUSel |-> "ADD", MemRW |-> FALSE, WBSel |-> "DM",
   MemLength |-> "X", MemSign |-> "U"]

\* io.signals: the row, with PCSel set also by a branch found taken.
ControlOut(i, brTaken) ==
  [Signals(i) EXCEPT !.PCSel = brTaken \/ Signals(i).PCSel]
=============================================================================
