----------------------------- MODULE PackageISA -----------------------------
(***************************************************************************)
(* The running package implements the ISA.  The host is away: pcEnable is  *)
(* high and the debugger idle.  The history variables record which of the  *)
(* stages hold an instruction (rather than a bubble) and the address that  *)
(* follows the last instruction to leave MEM, the stage where an           *)
(* instruction is considered executed: its store is done there, and its    *)
(* register write is pending in mw.                                        *)
(***************************************************************************)
EXTENDS Package

\* Both are powers of two in the code, so that the program counter runs around the
\* instruction memory in whole rounds.
ASSUME RoundAssumption == WordMod % (4 * IMemWords) = 0

VARIABLES
  inFD, inDE, inEM,   \* the stage holds an instruction of the program
  nextPc              \* where the next one to leave MEM should be

history == <<inFD, inDE, inEM, nextPc>>

Running ==
  [reset |-> FALSE, pcEnable |-> TRUE, dEnable |-> FALSE,
   dControl |-> "NOP", dDataIn |-> 0]

History ==
  /\ inFD' = IF Flush THEN FALSE ELSE IF LoadUse THEN inFD ELSE TRUE
  /\ inDE' = (inFD /\ ~Flush /\ ~LoadUse)
  /\ inEM' = inDE
  /\ nextPc' = IF ~inEM THEN nextPc
               ELSE IF em.control.PCSel THEN em.alu ELSE Add(em.pc, 4)

\* The registers, with the write that is under way in WB.
AbsRegs ==
  [r \in RegIdx |-> IF mw.control.RegWEn /\ r # 0 /\ mw.addrD = r
                    THEN Wb ELSE regs[r]]

-----------------------------------------------------------------------------
(***************************************************************************)
(* The pipeline does not resolve every hazard.  HazardFree is what a       *)
(* program must look like to be executed as written: the schedule a        *)
(* compiler for this core would have to keep.  It is stated for the cycle  *)
(* of addresses the instruction memory is, since the program counter runs  *)
(* around it.                                                              *)
(***************************************************************************)
Writes(i) == Signals(i).RegWEn /\ i.rd # 0

ReadsRs2(i) == i.class \in {"OP", "STORE", "BRANCH"}

HazardFree(program) ==
  \A j \in DOMAIN program :
    LET Ago(d) == Decode[program[(j - d) % IMemWords]]
        i == Ago(0)
        Recent(r, n) == {d \in 1 .. n : Ago(d).rd = r}
    IN \* the nearest name-sake of rs1 is close enough to be forwarded, and
       \* writes the register rather than having it in its rd bits
       /\ (i.class \in {"OP", "OPIMM", "JALR", "LOAD", "STORE"} /\ i.rs1 # 0)
            => LET near == Recent(i.rs1, 2)
               IN IF near = {} THEN ~(Writes(Ago(3)) /\ Ago(3).rd = i.rs1)
                  ELSE Writes(Ago(Min(near)))
       \* nothing is forwarded to the second operand, nor to a branch
       /\ \A r \in (IF ReadsRs2(i) THEN {i.rs2} ELSE {})
                   \cup (IF i.class = "BRANCH" THEN {i.rs1} ELSE {}) :
            \A d \in Recent(r, 3) : ~Writes(Ago(d))
       \* no stall, which would lose the instruction after i
       /\ Signals(Ago(1)).WBSel = "DM" => Ago(1).rd \notin {i.rs1, i.rs2}

-----------------------------------------------------------------------------

RunInit ==
  /\ PackageInit
  /\ inFD = FALSE /\ inDE = FALSE /\ inEM = FALSE
  /\ nextPc = 0

HazardFreeInit == RunInit /\ HazardFree(imem)

RunNext == Tick(Running) /\ History

RunSpec == HazardFreeInit /\ [][RunNext]_<<package, history>>

\* The clock never stops.
FairRunSpec == RunSpec /\ WF_<<package, history>>(RunNext)

\* The same with any program.
AnyProgramSpec == RunInit /\ [][RunNext]_<<package, history>>

ISA == INSTANCE ISA WITH prog <- imem, next <- nextPc, x <- AbsRegs,
                         data <- dmem

(***************************************************************************)
(* A program free of hazards is executed as the ISA says, from the start   *)
(* to its first taken jump: every clock executes one instruction in full   *)
(* or none (Core.scala:65-158).                                            *)
(***************************************************************************)
ImplementsISA == ISA!Spec

(***************************************************************************)
(* The core goes on executing, through jumps and loops: the tests load a   *)
(* program that begins with a jump and turns in loops, and expect what it  *)
(* has computed in data memory (PackageTester.scala:86-113, riscv.lst:10). *)
(***************************************************************************)
KeepsExecuting == []<>inEM
=============================================================================
