-------------------------------- MODULE ALU --------------------------------
(***************************************************************************)
(* The combinational arithmetic of the core: the ALU (ALU.scala) and the   *)
(* branch comparator (Branch.scala).  Neither keeps state, so both are     *)
(* operators.  A selector is a string named as in the code.                *)
(***************************************************************************)
EXTENDS Words, FiniteSetsExt

AluOps == {"ADD", "SUB", "SLL", "SLT", "SLTU", "XOR", "SRL", "SRA",
           "OR", "AND", "COPY_A", "COPY_B"}

BranchTypes == {"XX", "EQ", "NE", "LT", "GE", "LTU", "GEU"}

-----------------------------------------------------------------------------

Bit(a, i) == (a \div 2^i) % 2

\* The word whose bit i is op of the bits i of a and b.
BitByBit(op(_, _), a, b) ==
  MapThenSumSet(LAMBDA i : op(Bit(a, i), Bit(b, i)) * 2^i, 0 .. (W - 1))

Flag(b) == IF b THEN 1 ELSE 0

\* io.b(4, 0): the low log2(W) bits of the second operand.
Shamt(b) == b % W

\* The result is cut to the width of io.out.
Alu(sel, a, b) == (
  CASE sel = "ADD"    -> Add(a, b)
    [] sel = "SUB"    -> Sub(a, b)
    [] sel = "SLL"    -> a * 2^Shamt(b)
    [] sel = "SLT"    -> Flag(Signed(a) < Signed(b))
    [] sel = "SLTU"   -> Flag(a < b)
    [] sel = "XOR"    -> BitByBit(LAMBDA x, y : (x + y) % 2, a, b)
    [] sel = "SRL"    -> a \div 2^Shamt(b)
    [] sel = "SRA"    -> Unsigned(Signed(a) \div 2^Shamt(b))
    [] sel = "OR"     -> BitByBit(LAMBDA x, y : x + y - x * y, a, b)
    [] sel = "AND"    -> BitByBit(LAMBDA x, y : x * y, a, b)
    [] sel = "COPY_A" -> a
    [] sel = "COPY_B" -> b
    [] OTHER          -> WordMod - 1 ) % WordMod

(***************************************************************************)
(* A fact of arithmetic, like the one about WordMod: the provers have no   *)
(* induction to follow the powers of two and the sum over the bits with.   *)
(***************************************************************************)
ASSUME AluAssumption ==
  \A sel \in AluOps : \A a, b \in Word : Alu(sel, a, b) \in Word

BranchTaken(brType, a, b) ==
  \/ brType = "EQ"  /\ a = b
  \/ brType = "NE"  /\ a # b
  \/ brType = "LT"  /\ Signed(a) < Signed(b)
  \/ brType = "GE"  /\ Signed(a) >= Signed(b)
  \/ brType = "LTU" /\ a < b
  \/ brType = "GEU" /\ a >= b
=============================================================================
