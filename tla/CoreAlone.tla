------------------------------ MODULE CoreAlone ------------------------------
(***************************************************************************)
(* The core with nothing around it: every clock, the environment drives    *)
(* any member of Inputs.  In particular the instruction memory may answer  *)
(* with any word whatever the program counter says, so what holds here     *)
(* holds for every program, with the core paused, stepped or reset at any  *)
(* moment.                                                                 *)
(***************************************************************************)
EXTENDS Core

CONSTANT Inputs   \* what the environment may drive in a clock

ASSUME InputsAssumption == Inputs \subseteq CoreInput

Next == \E in \in Inputs : Clock(in)

Spec == CoreInit /\ [][Next]_core

-----------------------------------------------------------------------------
(***************************************************************************)
(* Safety.                                                                 *)
(***************************************************************************)

(***************************************************************************)
(* The result of the instruction in MEM is forwarded from em.alu, whatever *)
(* that instruction is (Core.scala:137).  For a load em.alu is an address, *)
(* for a link its jump target, so forwarding them would be wrong: whenever *)
(* the instruction in EX names the destination of the one in MEM, that one *)
(* must write back its ALU result.  The stall and the flush see to it.     *)
(***************************************************************************)
ForwardIsWriteback ==
  \A r \in {de.addrA, de.addrB} :
    (r # 0 /\ em.addrD = r) => em.control.WBSel = "ALU"

(***************************************************************************)
(* The two instructions fetched behind a taken jump or branch are          *)
(* discarded: while it is in MEM there is a NOP in ID and a bubble in EX,  *)
(* and while it is in WB bubbles in EX and MEM (Core.scala:65-75).         *)
(***************************************************************************)
WrongPathDiscarded ==
  /\ em.control.PCSel => fd.inst = NOP /\ de = Bubble
  /\ mw.control.PCSel => de = Bubble /\ em.control = ZeroSignals
                                     /\ em.addrD = 0

(***************************************************************************)
(* x0 reads as zero at every place an instruction can get it from: the     *)
(* register file, and the forwarding paths of an instruction that follows  *)
(* a write to x0 (Core.scala:137, Register.scala:21-24).                   *)
(***************************************************************************)
ZeroRegister ==
  /\ regs[0] = 0
  /\ de.addrA = 0 => OperandA = 0
  /\ de.addrB = 0 => OperandB = 0

(***************************************************************************)
(* A load stalls an instruction that reads its register once, not more:    *)
(* if the instruction in ID reads no x0 and is kept, it is not kept again  *)
(* (Core.scala:76-84).  For one that does read x0 see Wedged.              *)
(***************************************************************************)
StallsOnce ==
  [][(/\ LoadUse /\ ~Flush
      /\ 0 \notin {Fetched.rs1, Fetched.rs2}
      /\ fd' = fd)
     => ~LoadUse']_core

-----------------------------------------------------------------------------
(***************************************************************************)
(* The core can wedge.  A bubble in EX looks like a load of x0; if the     *)
(* instruction in ID has a zero in one of its source fields it is kept,    *)
(* another bubble enters EX, and so on.                                    *)
(***************************************************************************)
Wedged == de = Bubble /\ 0 \in {Fetched.rs1, Fetched.rs2}

Dead == Wedged /\ em.control = ZeroSignals /\ mw.control = ZeroSignals

(***************************************************************************)
(* Nothing the environment can do, reset included, frees a wedged core     *)
(* (Core.scala:41, 44: fd_inst resets to a NOP, and de does not reset).    *)
(***************************************************************************)
WedgedForGood == [][Wedged => Wedged']_core

(***************************************************************************)
(* A wedged core runs dry: in the end it writes no register any more, so   *)
(* registers change only by being reset.                                   *)
(***************************************************************************)
DeadWritesNothing ==
  [][Dead => Dead' /\ regs' \in {regs, [r \in RegIdx |-> 0]}]_core

-----------------------------------------------------------------------------
(***************************************************************************)
(* How long a reset must be.  Only the program counter, the register file  *)
(* and fd.inst have a reset value (Core.scala:41-63); the rest of the      *)
(* pipeline goes on executing what it holds, and is reset only in that     *)
(* NOPs or bubbles flow into it.  The history variable held counts the     *)
(* clocks reset has been up.                                               *)
(***************************************************************************)
HeldMax == 5   \* where the count stops

VARIABLE held

ResetInit == CoreInit /\ held = 0

ResetNext ==
  \E in \in Inputs :
    /\ Clock(in)
    /\ held' = IF ~in.reset THEN 0
               ELSE IF held < HeldMax THEN held + 1 ELSE held

ResetSpec == ResetInit /\ [][ResetNext]_<<core, held>>

(***************************************************************************)
(* Whatever the core was doing, a reset of five clocks brings it to a      *)
(* state it may start in, up to mw.dmemDR and stepPrev, which follow the   *)
(* inputs, and fd.pc of a wedged core: four clocks for the instructions in *)
(* flight to leave, one more for the address of the last.                  *)
(***************************************************************************)
ResetSettles ==
  held = HeldMax =>
    /\ pc = 0 /\ regs = [r \in RegIdx |-> 0] /\ fd.inst = NOP
    /\ de = Bubble \/ (de = NopDE /\ fd.pc = 0)
    /\ em = [control |-> de.control, alu |-> 0, dataB |-> 0, pc |-> 0,
             addrD |-> 0]
    /\ mw = [control |-> de.control, alu |-> 0, pc |-> 0,
             dmemDR |-> mw.dmemDR, addrD |-> 0]

(***************************************************************************)
(* A reset of four clocks is enough for the registers: nothing that was in *)
(* the pipeline before it writes one after it.                             *)
(***************************************************************************)
NothingSurvivesReset ==
  held >= 4 => /\ ~(mw.control.RegWEn /\ mw.addrD # 0)
               /\ ~(em.control.RegWEn /\ em.addrD # 0)
               /\ ~(de.control.RegWEn /\ de.addrD # 0)
               /\ ~de.control.MemRW /\ ~em.control.MemRW
=============================================================================
