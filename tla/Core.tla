-------------------------------- MODULE Core --------------------------------
(***************************************************************************)
(* The five stage pipeline of Core.scala with its program counter          *)
(* (PC.scala) and register file (Register.scala).                          *)
(*                                                                         *)
(* One step of the model is one rising clock edge: every register takes    *)
(* the value the combinational logic computed from the registers and the   *)
(* inputs before the edge.  The three alternatives of the front end (IF    *)
(* and ID) are three actions; the back end (EX, MEM and WB), the program   *)
(* counter and the register file move in each of them.                     *)
(*                                                                         *)
(* The pipeline registers are the records fd, de, em and mw, with the      *)
(* fields the code spells fd_inst, de_regFile_dataA and so on.             *)
(***************************************************************************)
EXTENDS Control

CONSTANT PowerUp   \* what the unreset pipeline registers hold at power up

ASSUME PowerUpAssumption == PowerUp \subseteq {"zero", "nop"}

VARIABLES
  pc,        \* the program counter
  regs,      \* the register file
  fd,        \* between IF and ID
  de,        \* between ID and EX
  em,        \* between EX and MEM
  mw,        \* between MEM and WB
  stepPrev   \* RegNext(io.pcStep)

core == <<pc, regs, fd, de, em, mw, stepPrev>>

-----------------------------------------------------------------------------

FD == [inst : Word, pc : Word]
DE == [control : ControlSignals, dataA : Word, dataB : Word,
       addrD : RegIdx, addrA : RegIdx, addrB : RegIdx, pc : Word, imm : Word]
EM == [control : ControlSignals, alu : Word, dataB : Word, pc : Word,
       addrD : RegIdx]
MW == [control : ControlSignals, alu : Word, pc : Word, dmemDR : Word,
       addrD : RegIdx]

(***************************************************************************)
(* The inputs of one clock: the reset line, the three ports that pace the  *)
(* program counter, the word the instruction memory shows at pc and the    *)
(* word the data memory shows at the address in em.                        *)
(***************************************************************************)
CoreInput == [reset : BOOLEAN, enable : BOOLEAN, pcReset : BOOLEAN,
              pcStep : BOOLEAN, imemOut : Word, dmemDR : Word]

\* What a flush or a stall puts into de: all zero.
Bubble == [control |-> ZeroSignals, dataA |-> 0, dataB |-> 0, addrD |-> 0,
           addrA |-> 0, addrB |-> 0, pc |-> 0, imm |-> 0]

-----------------------------------------------------------------------------
(***************************************************************************)
(* ID.                                                                     *)
(***************************************************************************)
Fetched == Decode[fd.inst]

ReadReg(r) == IF r = 0 THEN 0 ELSE regs[r]

\* The branch comparator sees the register file, not what is on its way.
BrTaken == BranchTaken(Signals(Fetched).BrType,
                       ReadReg(Fetched.rs1), ReadReg(Fetched.rs2))

Decoded == [control |-> ControlOut(Fetched, BrTaken),
            dataA   |-> ReadReg(Fetched.rs1),
            dataB   |-> ReadReg(Fetched.rs2),
            addrD   |-> Fetched.rd,
            addrA   |-> Fetched.rs1,
            addrB   |-> Fetched.rs2,
            pc      |-> fd.pc,
            imm     |-> Fetched.imm]

(***************************************************************************)
(* EX and WB.                                                              *)
(***************************************************************************)
Wb == CASE mw.control.WBSel = "DM"  -> mw.dmemDR
        [] mw.control.WBSel = "ALU" -> mw.alu
        [] mw.control.WBSel = "PC4" -> Add(mw.pc, 4)

\* The forwarding multiplexer: the address of a source and the value the
\* register file had for it one cycle ago.
\* Faults: x0 is forwarded like any other register; the result in MEM is not
\* forwarded.
ForwardZero(addr, own) ==
  IF em.addrD = addr THEN em.alu ELSE IF mw.addrD = addr THEN Wb ELSE own
ForwardFromWbOnly(addr, own) == IF addr # 0 /\ mw.addrD = addr THEN Wb ELSE own

Forward(addr, own) ==
  IF addr # 0 /\ em.addrD = addr THEN em.alu
  ELSE IF addr # 0 /\ mw.addrD = addr THEN Wb
  ELSE own

\* The code forwards the second operand too, and connects the result to
\* nothing: the ALU and the store data take what ID read.
OperandA == Forward(de.addrA, de.dataA)
OperandB == de.dataB

AluOut == Alu(de.control.ALUSel,
              IF de.control.ASel = "PC" THEN de.pc ELSE OperandA,
              IF de.control.BSel = "IMM" THEN de.imm ELSE OperandB)

(***************************************************************************)
(* The two conditions of the front end.  A bubble has WBSel = WB_DM (0)    *)
(* and addrD = 0, so LoadUse takes it for a load of x0.                    *)
(***************************************************************************)
Flush == de.control.PCSel

\* A fault: only the first source is compared.
LoadUseFirstOnly == de.control.WBSel = "DM" /\ de.addrD = Fetched.rs1

LoadUse == /\ de.control.WBSel = "DM"
           /\ de.addrD \in {Fetched.rs1, Fetched.rs2}

-----------------------------------------------------------------------------
(***************************************************************************)
(* The program counter.  It has a synchronous reset of its own, and moves  *)
(* when enabled; a step needs pcStep in two cycles in a row.               *)
(***************************************************************************)
Step(in) == in.pcStep /\ stepPrev

\* A fault: only the debugger resets the program counter.
PCNextUnreset(in) ==
  IF in.pcReset THEN 0
  ELSE IF ~(in.enable \/ Step(in)) THEN pc
  ELSE IF de.control.PCSel THEN AluOut ELSE Add(pc, 4)

PCNext(in) ==
  IF in.reset \/ in.pcReset THEN 0
  ELSE IF ~(in.enable \/ Step(in)) THEN pc
  ELSE IF de.control.PCSel THEN AluOut ELSE Add(pc, 4)

RegsNext(in) ==
  IF in.reset THEN [r \in RegIdx |-> 0]
  ELSE IF mw.control.RegWEn /\ mw.addrD # 0
       THEN [regs EXCEPT ![mw.addrD] = Wb]
       ELSE regs

BackEnd(in) ==
  /\ em' = [control |-> de.control, alu |-> AluOut, dataB |-> OperandB,
            pc |-> de.pc, addrD |-> de.addrD]
  /\ mw' = [control |-> em.control, alu |-> em.alu, pc |-> em.pc,
            dmemDR |-> in.dmemDR, addrD |-> em.addrD]
  /\ pc' = PCNext(in)
  /\ regs' = RegsNext(in)
  /\ stepPrev' = in.pcStep

\* A fault: fd.inst is a register without a reset.
FDNextUnreset(in, inst, instPc) == fd' = [inst |-> inst, pc |-> instPc]

\* Of the pipeline registers only fd.inst is reset.
FDNext(in, inst, instPc) ==
  fd' = [inst |-> IF in.reset THEN NOP ELSE inst, pc |-> instPc]

\* A fault: only the instruction in IF is dropped.
RedirectFetchOnly(in) ==
  Flush /\ FDNext(in, NOP, 0) /\ de' = Decoded /\ BackEnd(in)

\* A jump or a taken branch is in EX: drop the two instructions behind it.
Redirect(in) ==
  /\ Flush
  /\ FDNext(in, NOP, 0)
  /\ de' = Bubble
  /\ BackEnd(in)

\* A load is in EX and ID reads its register: keep ID for a cycle.
Stall(in) ==
  /\ ~Flush /\ LoadUse
  /\ FDNext(in, fd.inst, fd.pc)
  /\ de' = Bubble
  /\ BackEnd(in)

Advance(in) ==
  /\ ~Flush /\ ~LoadUse
  /\ FDNext(in, in.imemOut, pc)
  /\ de' = Decoded
  /\ BackEnd(in)

Clock(in) == Redirect(in) \/ Stall(in) \/ Advance(in)

(***************************************************************************)
(* The state at the end of a reset held for a few cycles.  Registers       *)
(* without a reset value start as zeros (an FPGA, a two state simulator),  *)
(* and then de is a bubble and stays one; or as something (a simulation    *)
(* that randomises them), and then the reset fills them with NOPs unless   *)
(* chance made de a bubble or a jump.                                      *)
(***************************************************************************)
NopDE == [Bubble EXCEPT !.control = Signals(Decode[NOP])]

CoreInit ==
  /\ pc = 0
  /\ regs = [r \in RegIdx |-> 0]
  /\ fd = [inst |-> NOP, pc |-> 0]
  /\ \E p \in PowerUp : de = IF p = "zero" THEN Bubble ELSE NopDE
  /\ em = [control |-> de.control, alu |-> 0, dataB |-> 0, pc |-> 0,
           addrD |-> 0]
  /\ mw = [control |-> de.control, alu |-> 0, pc |-> 0, dmemDR |-> 0,
           addrD |-> 0]
  /\ stepPrev = FALSE

CoreTypeOK ==
  /\ pc \in Word
  /\ regs \in [RegIdx -> Word]
  /\ fd \in FD
  /\ de \in DE
  /\ em \in EM
  /\ mw \in MW
  /\ stepPrev \in BOOLEAN
=============================================================================
