----------------------------- MODULE CoreProofs -----------------------------
(***************************************************************************)
(* Proofs about the core: type correctness of its logic and of one clock,  *)
(* the core under an arbitrary environment and its reset (CoreAlone), for  *)
(* every word width, register count, instruction encoding and input; and   *)
(* the decoder, for every instruction word.                                *)
(***************************************************************************)
EXTENDS CoreAlone, Decoder, SequenceTheorems, TLAPS

-----------------------------------------------------------------------------
(***************************************************************************)
(* Operators: what the combinational logic computes is well typed.         *)
(***************************************************************************)

\* Sums of words are words, and so are zero and every address.
LEMMA AddType ==
  /\ 0 \in Word
  /\ \A a \in Word : Add(a, 4) \in Word
BY WordAssumption DEF Add, Word

\* The table of Control.scala has a well-typed row for every instruction.
LEMMA SignalsType ==
  ASSUME NEW i \in Instruction PROVE Signals(i) \in ControlSignals
<1>1. /\ i.class \in Classes /\ i.alu \in AluOps /\ i.branch \in BranchTypes
      /\ i.length \in Lengths /\ i.sign \in Signs
  BY DEF Instruction
<1>2. "ADD" \in AluOps /\ "COPY_B" \in AluOps
  BY DEF AluOps
<1>3. "XX" \in BranchTypes /\ "X" \in Lengths /\ "U" \in Signs
  BY DEF BranchTypes, Lengths, Signs
<1> QED
  BY <1>1, <1>2, <1>3 DEF Signals, ControlSignals, Classes

\* So has the default row, and PCSel may be set on top of any row.
LEMMA ControlType ==
  /\ ZeroSignals \in ControlSignals
  /\ \A i \in Instruction, t \in BOOLEAN : ControlOut(i, t) \in ControlSignals
<1>1. ZeroSignals \in ControlSignals
  BY DEF ZeroSignals, ControlSignals, AluOps, BranchTypes, Lengths, Signs
<1>2. ASSUME NEW i \in Instruction, NEW t \in BOOLEAN
      PROVE  ControlOut(i, t) \in ControlSignals
  BY <1>2, SignalsType DEF ControlOut, ControlSignals
<1> QED
  BY <1>1, <1>2

\* What ID hands to EX.
LEMMA DecodedType == ASSUME CoreTypeOK PROVE Decoded \in DE
<1>1. Fetched \in Instruction
  BY DecodeAssumption DEF CoreTypeOK, FD, Fetched
<1>2. /\ Fetched.rs1 \in RegIdx /\ Fetched.rs2 \in RegIdx
      /\ Fetched.rd \in RegIdx /\ Fetched.imm \in Word
  BY <1>1 DEF Instruction
<1>3. \A r \in RegIdx : ReadReg(r) \in Word
  BY AddType DEF CoreTypeOK, ReadReg
<1>4. BrTaken \in BOOLEAN
  BY DEF BrTaken, BranchTaken
<1>5. ControlOut(Fetched, BrTaken) \in ControlSignals
  BY <1>1, <1>4, ControlType
<1> QED
  BY <1>2, <1>3, <1>5 DEF Decoded, DE, CoreTypeOK, FD

\* What WB writes, and what EX computes.
LEMMA WbType == ASSUME CoreTypeOK PROVE Wb \in Word
<1>1. /\ mw.control.WBSel \in {"DM", "ALU", "PC4"}
      /\ mw.dmemDR \in Word /\ mw.alu \in Word /\ mw.pc \in Word
  BY DEF CoreTypeOK, MW, ControlSignals
<1> QED
  BY <1>1, AddType DEF Wb

LEMMA AluOutType ==
  ASSUME CoreTypeOK PROVE AluOut \in Word /\ OperandB \in Word
<1>1. /\ de.dataA \in Word /\ de.dataB \in Word /\ de.pc \in Word
      /\ de.imm \in Word /\ de.control.ALUSel \in AluOps
  BY DEF CoreTypeOK, DE, ControlSignals
<1>2. em.alu \in Word
  BY DEF CoreTypeOK, EM
<1>3. OperandA \in Word /\ OperandB \in Word
  BY <1>1, <1>2, WbType DEF OperandA, OperandB, Forward
<1> QED
  BY <1>1, <1>3, AluAssumption DEF AluOut

\* The registers that move in every clock.
LEMMA BackEndType ==
  ASSUME CoreTypeOK, NEW in \in CoreInput, BackEnd(in)
  PROVE  /\ pc' \in Word /\ regs' \in [RegIdx -> Word]
         /\ em' \in EM /\ mw' \in MW /\ stepPrev' \in BOOLEAN
<1>1. pc' \in Word
  BY AddType, AluOutType DEF BackEnd, PCNext, CoreTypeOK
<1>2. regs' \in [RegIdx -> Word]
  BY AddType, WbType DEF BackEnd, RegsNext, CoreTypeOK
<1>3. em' \in EM
  BY AluOutType DEF BackEnd, EM, CoreTypeOK, DE
<1>4. mw' \in MW
  BY DEF BackEnd, MW, EM, CoreTypeOK, CoreInput
<1>5. stepPrev' \in BOOLEAN
  BY DEF BackEnd, CoreInput
<1> QED
  BY <1>1, <1>2, <1>3, <1>4, <1>5

\* A bubble and a NOP, as they sit in the pipeline registers.
LEMMA BubbleType == Bubble \in DE /\ NopDE \in DE
<1>1. 0 \in RegIdx
  BY DecodeAssumption DEF RegIdx
<1>2. Bubble \in DE
  BY <1>1, AddType, ControlType DEF Bubble, DE
<1>3. Signals(Decode[NOP]) \in ControlSignals
  BY DecodeAssumption, SignalsType
<1> QED
  BY <1>2, <1>3 DEF NopDE, DE

-----------------------------------------------------------------------------
(***************************************************************************)
(* Types.                                                                  *)
(***************************************************************************)

LEMMA TypeInit == CoreInit => CoreTypeOK
<1> SUFFICES ASSUME CoreInit PROVE CoreTypeOK
  OBVIOUS
<1>1. de \in DE
  BY BubbleType DEF CoreInit
<1>2. de.control \in ControlSignals /\ 0 \in RegIdx
  BY <1>1, DecodeAssumption DEF DE, RegIdx
<1>3. em \in EM /\ mw \in MW
  BY <1>2, AddType DEF CoreInit, EM, MW
<1> QED
  BY <1>1, <1>3, AddType, DecodeAssumption DEF CoreInit, CoreTypeOK, FD

\* One clock.
LEMMA ClockType ==
  ASSUME CoreTypeOK, NEW in \in CoreInput, Clock(in)
  PROVE  CoreTypeOK'
<1>1. BackEnd(in)
  BY DEF Clock, Redirect, Stall, Advance
<1>2. /\ pc' \in Word /\ regs' \in [RegIdx -> Word]
      /\ em' \in EM /\ mw' \in MW /\ stepPrev' \in BOOLEAN
  BY <1>1, BackEndType
<1>3. fd' \in FD /\ de' \in DE
  <2>0. NOP \in Word /\ pc \in Word /\ fd.inst \in Word /\ fd.pc \in Word
        /\ in.imemOut \in Word
    BY DecodeAssumption DEF CoreTypeOK, FD, CoreInput
  <2>1. CASE Redirect(in)
    BY <2>0, <2>1, AddType, BubbleType DEF Redirect, FDNext, FD
  <2>2. CASE Stall(in)
    BY <2>0, <2>2, BubbleType DEF Stall, FDNext, FD
  <2>3. CASE Advance(in)
    BY <2>0, <2>3, DecodedType DEF Advance, FDNext, FD
  <2> QED
    BY <2>1, <2>2, <2>3 DEF Clock
<1> QED
  BY <1>2, <1>3 DEF CoreTypeOK

-----------------------------------------------------------------------------
(***************************************************************************)
(* Types, whatever the environment does.                                   *)
(***************************************************************************)
LEMMA TypeStep == CoreTypeOK /\ [Next]_core => CoreTypeOK'
<1> SUFFICES ASSUME CoreTypeOK, [Next]_core PROVE CoreTypeOK'
  OBVIOUS
<1>1. CASE Next
  BY <1>1, InputsAssumption, ClockType DEF Next
<1>2. CASE UNCHANGED core
  BY <1>2 DEF core, CoreTypeOK
<1> QED
  BY <1>1, <1>2

\* Every register keeps to its width and every selector to its codes.
THEOREM CoreTypes == Spec => []CoreTypeOK
BY TypeInit, TypeStep, PTL DEF Spec

-----------------------------------------------------------------------------
(***************************************************************************)
(* Forwarding.  On its own the property is not kept by an Advance: it must *)
(* be known that an instruction that writes its link is a jump, and so is  *)
(* followed by bubbles.                                                    *)
(***************************************************************************)
LinkJumps == de.control.WBSel = "PC4" => de.control.PCSel

ForwardInv == CoreTypeOK /\ LinkJumps /\ ForwardIsWriteback

\* In the table only JAL and JALR write the link, and both jump.
LEMMA OnlyJumpsLink ==
  ASSUME NEW i, NEW t
  PROVE  ControlOut(i, t).WBSel = "PC4" => ControlOut(i, t).PCSel
BY DEF ControlOut, Signals

\* What the fields of Bubble and NopDE hold, for use in the steps.
LEMMA BubbleFields ==
  /\ Bubble.control = ZeroSignals /\ Bubble.addrD = 0
  /\ Bubble.addrA = 0 /\ Bubble.addrB = 0
  /\ Bubble.dataA = 0 /\ Bubble.dataB = 0
  /\ ZeroSignals.WBSel = "DM" /\ ~ZeroSignals.PCSel
  /\ ~ZeroSignals.RegWEn
BY DEF Bubble, ZeroSignals

LEMMA NopFields ==
  /\ NopDE.addrD = 0 /\ NopDE.addrA = 0 /\ NopDE.addrB = 0
  /\ NopDE.dataA = 0 /\ NopDE.dataB = 0
  /\ NopDE.control.WBSel = "ALU" /\ ~NopDE.control.PCSel
<1>1. NopDE = [control |-> Signals(Decode[NOP]), dataA |-> 0, dataB |-> 0,
               addrD |-> 0, addrA |-> 0, addrB |-> 0, pc |-> 0, imm |-> 0]
  BY DEF NopDE, Bubble
<1>2. /\ Signals(Decode[NOP]).WBSel = "ALU"
      /\ ~Signals(Decode[NOP]).PCSel
  <2>1. Decode[NOP].class = "OPIMM"
    BY DecodeAssumption
  <2>2. "OPIMM" \notin {"LOAD", "UNKNOWN"} /\ "OPIMM" \notin {"JAL", "JALR"}
    OBVIOUS
  <2> QED
    BY <2>1, <2>2 DEF Signals
<1> QED
  BY <1>1, <1>2

LEMMA ForwardInit == CoreInit => ForwardInv
<1> SUFFICES ASSUME CoreInit PROVE ForwardInv
  OBVIOUS
<1>1. /\ de.addrA = 0 /\ de.addrB = 0
      /\ de.control.WBSel # "PC4"
  BY BubbleFields, NopFields DEF CoreInit
<1> QED
  BY <1>1, TypeInit DEF ForwardInv, LinkJumps, ForwardIsWriteback

LEMMA ForwardStep == ForwardInv /\ [Next]_core => ForwardInv'
<1> SUFFICES ASSUME ForwardInv, [Next]_core PROVE ForwardInv'
  OBVIOUS
<1>1. CoreTypeOK'
  BY TypeStep DEF ForwardInv
<1>2. ASSUME NEW in \in Inputs, Clock(in)
      PROVE  LinkJumps' /\ ForwardIsWriteback'
  <2>1. CASE Redirect(in) \/ Stall(in)
    <3>1. de' = Bubble
      BY <2>1 DEF Redirect, Stall
    <3> QED
      BY <3>1, BubbleFields DEF LinkJumps, ForwardIsWriteback
  <2>2. CASE Advance(in)
    <3>1. /\ de' = Decoded
          /\ em'.control = de.control /\ em'.addrD = de.addrD
      BY <2>2 DEF Advance, BackEnd
    <3>2. LinkJumps'
      BY <3>1, OnlyJumpsLink DEF LinkJumps, Decoded
    <3>3. de'.addrA = Fetched.rs1 /\ de'.addrB = Fetched.rs2
      BY <3>1 DEF Decoded
    <3>4. de.control.WBSel \in {"DM", "ALU", "PC4"}
      BY DEF ForwardInv, CoreTypeOK, DE, ControlSignals
    <3>5. de.control.WBSel # "PC4"
      BY <2>2 DEF Advance, Flush, ForwardInv, LinkJumps
    <3>6. de.addrD \in {Fetched.rs1, Fetched.rs2}
            => de.control.WBSel # "DM"
      BY <2>2 DEF Advance, LoadUse
    <3>7. em'.addrD \in {de'.addrA, de'.addrB} => em'.control.WBSel = "ALU"
      BY <3>1, <3>3, <3>4, <3>5, <3>6
    <3>8. ForwardIsWriteback'
      BY <3>7 DEF ForwardIsWriteback
    <3> QED
      BY <3>2, <3>8
  <2> QED
    BY <1>2, <2>1, <2>2 DEF Clock
<1>3. CASE UNCHANGED core
  <2>1. de' = de /\ em' = em
    BY <1>3 DEF core
  <2>2. LinkJumps'
    BY <2>1 DEF ForwardInv, LinkJumps
  <2>3. ForwardIsWriteback'
    BY <2>1 DEF ForwardInv, ForwardIsWriteback
  <2> QED
    BY <1>1, <2>2, <2>3 DEF ForwardInv
<1> QED
  BY <1>1, <1>2, <1>3 DEF ForwardInv, Next

(***************************************************************************)
(* No load address and no jump target is ever forwarded: see               *)
(* ForwardIsWriteback.                                                     *)
(***************************************************************************)
THEOREM ForwardingIsSound == Spec => []ForwardIsWriteback
<1>1. ForwardInv => ForwardIsWriteback
  BY DEF ForwardInv
<1> QED
  BY <1>1, ForwardInit, ForwardStep, PTL DEF Spec

-----------------------------------------------------------------------------
(***************************************************************************)
(* Jumps and the wedged core.                                              *)
(***************************************************************************)

\* A bubble in EX and a zero source field in ID make a stall, and nothing
\* else, which leaves them as they are.
LEMMA WedgedStays ==
  ASSUME Wedged, NEW in, Clock(in)
  PROVE  /\ Stall(in)
         /\ Wedged' /\ de' = Bubble
         /\ fd.inst = NOP => fd'.inst = NOP
<1>1. ~Flush /\ LoadUse
  BY BubbleFields DEF Wedged, Flush, LoadUse
<1>2. Stall(in)
  BY <1>1 DEF Clock, Redirect, Advance
<1>3. de' = Bubble /\ fd'.inst \in {NOP, fd.inst}
  BY <1>2 DEF Stall, FDNext
<1>4. Decode[NOP].rs1 = 0
  BY DecodeAssumption
<1>5. 0 \in {Fetched.rs1, Fetched.rs2}'
  BY <1>3, <1>4 DEF Wedged, Fetched
<1> QED
  BY <1>2, <1>3, <1>5 DEF Wedged

(***************************************************************************)
(* A wedged core stays wedged: see WedgedForGood.                          *)
(***************************************************************************)
THEOREM WedgedIsForGood == Spec => WedgedForGood
<1>1. [Next]_core => [Wedged => Wedged']_core
  BY WedgedStays DEF Next
<1> QED
  BY <1>1, PTL DEF Spec, WedgedForGood

LEMMA DeadStep ==
  ASSUME Dead, [Next]_core
  PROVE  Dead' /\ regs' \in {regs, [r \in RegIdx |-> 0]}
<1>1. ASSUME NEW in \in Inputs, Clock(in)
      PROVE  Dead' /\ regs' \in {regs, [r \in RegIdx |-> 0]}
  <2>1. Wedged' /\ BackEnd(in)
    BY <1>1, WedgedStays DEF Dead, Stall
  <2>2. em'.control = ZeroSignals /\ mw'.control = ZeroSignals
    BY <2>1, BubbleFields DEF Dead, Wedged, BackEnd
  <2>3. regs' \in {regs, [r \in RegIdx |-> 0]}
    BY <2>1, BubbleFields DEF Dead, BackEnd, RegsNext
  <2> QED
    BY <2>1, <2>2, <2>3 DEF Dead
<1>2. CASE UNCHANGED core
  BY <1>2 DEF core, Dead, Wedged, Fetched
<1> QED
  BY <1>1, <1>2 DEF Next

(***************************************************************************)
(* And once its last instructions have drained, it never again writes a    *)
(* register: see DeadWritesNothing.                                        *)
(***************************************************************************)
THEOREM DeadCoreWritesNothing == Spec => DeadWritesNothing
<1>1. [Next]_core =>
        [Dead => Dead' /\ regs' \in {regs, [r \in RegIdx |-> 0]}]_core
  BY DeadStep
<1> QED
  BY <1>1, PTL DEF Spec, DeadWritesNothing

LEMMA WrongPathInit == CoreInit => WrongPathDiscarded
<1> SUFFICES ASSUME CoreInit PROVE WrongPathDiscarded
  OBVIOUS
<1>1. ~de.control.PCSel
  BY BubbleFields, NopFields DEF CoreInit
<1> QED
  BY <1>1 DEF CoreInit, WrongPathDiscarded

LEMMA WrongPathStep ==
  WrongPathDiscarded /\ [Next]_core => WrongPathDiscarded'
<1> SUFFICES ASSUME WrongPathDiscarded, [Next]_core
             PROVE  WrongPathDiscarded'
  OBVIOUS
<1>1. ASSUME NEW in \in Inputs, Clock(in) PROVE WrongPathDiscarded'
  <2>0. /\ em'.control = de.control /\ em'.addrD = de.addrD
        /\ mw'.control = em.control
    BY <1>1 DEF Clock, Redirect, Stall, Advance, BackEnd
  <2>1. em'.control.PCSel => fd'.inst = NOP /\ de' = Bubble
    <3> SUFFICES ASSUME Flush PROVE fd'.inst = NOP /\ de' = Bubble
      BY <2>0 DEF Flush
    <3>1. Redirect(in)
      BY <1>1 DEF Clock, Stall, Advance
    <3> QED
      BY <3>1 DEF Redirect, FDNext
  <2>2. mw'.control.PCSel => /\ de' = Bubble
                             /\ em'.control = ZeroSignals /\ em'.addrD = 0
    <3> SUFFICES ASSUME em.control.PCSel
                 PROVE  /\ de' = Bubble
                        /\ em'.control = ZeroSignals /\ em'.addrD = 0
      BY <2>0
    <3>1. fd.inst = NOP /\ de = Bubble
      BY DEF WrongPathDiscarded
    <3>2. Wedged
      BY <3>1, DecodeAssumption DEF Wedged, Fetched
    <3> QED
      BY <1>1, <2>0, <3>1, <3>2, WedgedStays, BubbleFields
  <2> QED
    BY <2>1, <2>2 DEF WrongPathDiscarded
<1>2. CASE UNCHANGED core
  BY <1>2 DEF core, WrongPathDiscarded
<1> QED
  BY <1>1, <1>2 DEF Next

(***************************************************************************)
(* The two instructions behind a taken jump never get past EX: see         *)
(* WrongPathDiscarded.                                                     *)
(***************************************************************************)
THEOREM WrongPathIsDiscarded == Spec => []WrongPathDiscarded
BY WrongPathInit, WrongPathStep, PTL DEF Spec

-----------------------------------------------------------------------------
(***************************************************************************)
(* Register zero.                                                          *)
(***************************************************************************)
ZeroInv == CoreTypeOK /\ ZeroRegister

\* What ID reads for x0 is zero, and forwarding does not touch it.
LEMMA ZeroOperands ==
  ZeroRegister <=> /\ regs[0] = 0
                   /\ de.addrA = 0 => de.dataA = 0
                   /\ de.addrB = 0 => de.dataB = 0
BY DEF ZeroRegister, OperandA, OperandB, Forward

LEMMA ZeroInit == CoreInit => ZeroInv
<1> SUFFICES ASSUME CoreInit PROVE ZeroInv
  OBVIOUS
<1>1. regs[0] = 0
  BY DecodeAssumption DEF CoreInit, RegIdx
<1>2. de.dataA = 0 /\ de.dataB = 0
  BY BubbleFields, NopFields DEF CoreInit
<1> QED
  BY <1>1, <1>2, TypeInit, ZeroOperands DEF ZeroInv

LEMMA ZeroStep == ZeroInv /\ [Next]_core => ZeroInv'
<1> SUFFICES ASSUME ZeroInv, [Next]_core PROVE ZeroInv'
  OBVIOUS
<1>1. CoreTypeOK'
  BY TypeStep DEF ZeroInv
<1>2. ASSUME NEW in \in Inputs, Clock(in)
      PROVE  /\ regs'[0] = 0
             /\ de'.addrA = 0 => de'.dataA = 0
             /\ de'.addrB = 0 => de'.dataB = 0
  <2>1. regs'[0] = 0
    <3>1. regs' = RegsNext(in)
      BY <1>2 DEF Clock, Redirect, Stall, Advance, BackEnd
    <3>2. regs[0] = 0 /\ regs \in [RegIdx -> Word] /\ 0 \in RegIdx
      BY DecodeAssumption DEF ZeroInv, ZeroRegister, CoreTypeOK, RegIdx
    <3> QED
      BY <3>1, <3>2 DEF RegsNext
  <2>2. CASE de' = Bubble
    BY <2>1, <2>2, BubbleFields
  <2>3. CASE de' = Decoded
    BY <2>1, <2>3 DEF Decoded, ReadReg
  <2> QED
    BY <1>2, <2>2, <2>3 DEF Clock, Redirect, Stall, Advance
<1>3. ASSUME UNCHANGED core
      PROVE  /\ regs'[0] = 0
             /\ de'.addrA = 0 => de'.dataA = 0
             /\ de'.addrB = 0 => de'.dataB = 0
  <2>1. regs' = regs /\ de' = de
    BY <1>3 DEF core
  <2> QED
    BY <2>1, ZeroOperands DEF ZeroInv
<1>4. /\ regs'[0] = 0
      /\ de'.addrA = 0 => de'.dataA = 0
      /\ de'.addrB = 0 => de'.dataB = 0
  BY <1>2, <1>3 DEF Next
<1>5. ZeroRegister'
  BY <1>4 DEF ZeroRegister, OperandA, OperandB, Forward
<1> QED
  BY <1>1, <1>5 DEF ZeroInv

(***************************************************************************)
(* x0 reads as zero: see ZeroRegister.                                     *)
(***************************************************************************)
THEOREM ZeroReadsZero == Spec => []ZeroRegister
<1>1. ZeroInv => ZeroRegister
  BY DEF ZeroInv
<1> QED
  BY <1>1, ZeroInit, ZeroStep, PTL DEF Spec

-----------------------------------------------------------------------------
(***************************************************************************)
(* A stall leaves a bubble, which delays only a reader of x0: see          *)
(* StallsOnce.                                                             *)
(***************************************************************************)
THEOREM StallIsOneCycle == Spec => StallsOnce
<1>1. ASSUME [Next]_core, LoadUse, ~Flush,
             0 \notin {Fetched.rs1, Fetched.rs2}, fd' = fd, ~UNCHANGED core
      PROVE  ~LoadUse'
  <2>1. PICK in \in Inputs : Clock(in)
    BY <1>1 DEF Next
  <2>2. de' = Bubble
    BY <1>1, <2>1 DEF Clock, Redirect, Stall, Advance
  <2>3. 0 \notin {Fetched.rs1, Fetched.rs2}'
    BY <1>1 DEF Fetched
  <2> QED
    BY <2>2, <2>3, BubbleFields DEF LoadUse
<1>2. [Next]_core =>
        [(/\ LoadUse /\ ~Flush
          /\ 0 \notin {Fetched.rs1, Fetched.rs2}
          /\ fd' = fd)
         => ~LoadUse']_core
  BY <1>1
<1> QED
  BY <1>2, PTL DEF Spec, StallsOnce

-----------------------------------------------------------------------------
(***************************************************************************)
(* Reset.  Neither property about it is inductive: what is in a stage      *)
(* after k clocks follows from what was in the stage before it after k-1.  *)
(* So the invariant says, stage by stage, what the first, second, third,   *)
(* fourth and fifth clock of a reset have made of them.                    *)
(***************************************************************************)
\* NOP in EX, whatever address it was fetched from.
NopInEX == de = [NopDE EXCEPT !.pc = de.pc]

ResetInv ==
  /\ CoreTypeOK /\ held \in 0 .. HeldMax
  /\ held >= 1 => pc = 0 /\ regs = [r \in RegIdx |-> 0] /\ fd.inst = NOP
  /\ held >= 2 => de = Bubble \/ (NopInEX /\ fd.pc = 0)
  /\ held >= 3 => /\ de.pc = 0
                  /\ em.control = de.control
                  /\ em.alu = 0 /\ em.dataB = 0 /\ em.addrD = 0
  /\ held >= 4 => /\ em.pc = 0
                  /\ mw.control = de.control /\ mw.alu = 0 /\ mw.addrD = 0
  /\ held >= 5 => mw.pc = 0

\* The record a NOP is in EX.
LEMMA NopRecord ==
  /\ \A p : [NopDE EXCEPT !.pc = p] =
              [control |-> Signals(Decode[NOP]), dataA |-> 0, dataB |-> 0,
               addrD |-> 0, addrA |-> 0, addrB |-> 0, pc |-> p, imm |-> 0]
  /\ NopDE = [NopDE EXCEPT !.pc = 0]
<1>1. NopDE = [control |-> Signals(Decode[NOP]), dataA |-> 0, dataB |-> 0,
               addrD |-> 0, addrA |-> 0, addrB |-> 0, pc |-> 0, imm |-> 0]
  BY DEF NopDE, Bubble
<1> QED
  BY <1>1

\* NOP in EX has the fields of NopDE but for its address.
LEMMA NopInEXFields ==
  ASSUME NopInEX
  PROVE  /\ de.control = Signals(Decode[NOP])
         /\ de.addrD = 0 /\ de.addrA = 0 /\ de.addrB = 0
         /\ de.dataA = 0 /\ de.dataB = 0 /\ de.imm = 0
BY NopRecord DEF NopInEX

\* The row of NOP in the table.
LEMMA NopSignals ==
  LET s == Signals(Decode[NOP])
  IN /\ s.ALUSel = "ADD" /\ s.ASel = "RS1" /\ s.BSel = "IMM"
     /\ s.WBSel = "ALU" /\ s.BrType = "XX" /\ ~s.PCSel /\ ~s.MemRW
<1>1. Decode[NOP].class = "OPIMM" /\ Decode[NOP].alu = "ADD"
  BY DecodeAssumption
<1>2. "OPIMM" \notin {"LOAD", "UNKNOWN"} /\ "OPIMM" \notin {"JAL", "JALR"}
      /\ "OPIMM" \notin {"OP", "UNKNOWN"} /\ "OPIMM" \in {"OP", "OPIMM"}
      /\ "OPIMM" \notin {"AUIPC", "LUI", "JAL", "BRANCH"}
      /\ "OPIMM" # "STORE" /\ "OPIMM" # "BRANCH"
  OBVIOUS
<1> QED
  BY <1>1, <1>2 DEF Signals

\* Neither a bubble nor a NOP computes anything.
LEMMA QuietEX ==
  ASSUME de = Bubble \/ NopInEX
  PROVE  /\ AluOut = 0 /\ OperandB = 0 /\ de.addrD = 0
         /\ ~de.control.PCSel /\ ~de.control.MemRW
<1>1. /\ de.addrA = 0 /\ de.dataA = 0 /\ de.dataB = 0 /\ de.imm = 0
      /\ de.addrD = 0 /\ de.control.ALUSel = "ADD"
      /\ de.control.ASel = "RS1"
      /\ ~de.control.PCSel /\ ~de.control.MemRW
  BY NopInEXFields, NopSignals DEF Bubble, ZeroSignals
<1>2. OperandA = 0 /\ OperandB = 0
  BY <1>1 DEF OperandA, OperandB, Forward
<1>3. AluOut = Alu("ADD", 0, 0)
  BY <1>1, <1>2 DEF AluOut
<1>4. Alu("ADD", 0, 0) = 0
  <2>1. Alu("ADD", 0, 0) = Add(0, 0) % WordMod
    BY Zenon DEF Alu
  <2> QED
    BY <2>1, WordAssumption DEF Add
<1> QED
  BY <1>1, <1>2, <1>3, <1>4

LEMMA ResetInvInit == ResetInit => ResetInv
BY TypeInit DEF ResetInit, ResetInv, HeldMax

\* One clock of a reset that has been up for held clocks before.
LEMMA ResetClock ==
  ASSUME ResetInv, NEW in \in Inputs, Clock(in), in.reset,
         held' = IF held < HeldMax THEN held + 1 ELSE held
  PROVE  ResetInv'
<1>0. CoreTypeOK' /\ CoreTypeOK
  BY InputsAssumption, ClockType DEF ResetInv
<1>1. held' \in 1 .. HeldMax /\ held \in 0 .. HeldMax
      /\ (held < HeldMax => held' = held + 1)
      /\ (held = HeldMax => held' = held)
  BY DEF ResetInv, HeldMax
<1>2. BackEnd(in)
  BY DEF Clock, Redirect, Stall, Advance
<1>3. pc' = 0 /\ regs' = [r \in RegIdx |-> 0] /\ fd'.inst = NOP
  BY <1>2 DEF BackEnd, PCNext, RegsNext, Clock, Redirect, Stall, Advance,
              FDNext
<1>4. /\ em'.control = de.control /\ em'.pc = de.pc /\ em'.addrD = de.addrD
      /\ em'.alu = AluOut /\ em'.dataB = OperandB
      /\ mw'.control = em.control /\ mw'.alu = em.alu /\ mw'.pc = em.pc
      /\ mw'.addrD = em.addrD
  BY <1>2 DEF BackEnd
\* The second clock: the NOP in ID enters EX, or a bubble does.
<1>5. ASSUME held >= 1
      PROVE  de' = Bubble \/ (NopInEX' /\ fd'.pc = 0 /\ de'.pc = fd.pc)
  <2>1. CASE de' = Bubble
    BY <2>1
  <2>2. CASE Advance(in)
    <3>1. fd'.pc = 0 /\ de' = Decoded
      BY <1>5, <2>2 DEF Advance, FDNext, ResetInv
    <3>2. Fetched = Decode[NOP]
      BY <1>5 DEF Fetched, ResetInv
    <3>3. /\ Fetched.rs1 = 0 /\ Fetched.rs2 = 0 /\ Fetched.rd = 0
          /\ Fetched.imm = 0
      BY <3>2, DecodeAssumption
    <3>4. ~BrTaken
      BY <3>2, NopSignals DEF BrTaken, BranchTaken
    <3>5. ControlOut(Fetched, BrTaken) = Signals(Decode[NOP])
      BY <3>2, <3>4, NopSignals DEF ControlOut, Signals
    <3>6. Decoded = [NopDE EXCEPT !.pc = fd.pc]
      <4>1. Decoded = [control |-> Signals(Decode[NOP]), dataA |-> 0,
                       dataB |-> 0, addrD |-> 0, addrA |-> 0, addrB |-> 0,
                       pc |-> fd.pc, imm |-> 0]
        BY <3>3, <3>5 DEF Decoded, ReadReg
      <4> QED
        BY <4>1, NopRecord
    <3> QED
      BY <3>1, <3>6, NopRecord DEF NopInEX
  <2> QED
    BY <2>1, <2>2 DEF Clock, Redirect, Stall
\* The third: what follows a bubble is a bubble, what follows a NOP a NOP.
<1>6. ASSUME held >= 2
      PROVE  /\ de'.pc = 0 /\ de'.control = de.control
             /\ em'.alu = 0 /\ em'.dataB = 0 /\ em'.addrD = 0
  <2>0. de = Bubble \/ NopInEX
    BY <1>6, <1>1 DEF ResetInv
  <2>1. em'.alu = 0 /\ em'.dataB = 0 /\ em'.addrD = 0
    BY <2>0, <1>4, QuietEX
  <2>2. CASE de = Bubble
    <3>1. Wedged
      BY <1>1, <1>6, <2>2, DecodeAssumption DEF Wedged, Fetched, ResetInv
    <3>2. de' = Bubble
      BY <3>1, WedgedStays
    <3> QED
      BY <2>1, <2>2, <3>2 DEF Bubble
  <2>3. CASE NopInEX /\ fd.pc = 0
    <3>1. de.control.WBSel = "ALU" /\ ~de.control.PCSel
      BY <2>3, NopInEXFields, NopSignals
    <3>2. Advance(in)
      BY <3>1 DEF Clock, Redirect, Stall, Flush, LoadUse
    <3>3. de' = Decoded
      BY <3>2 DEF Advance
    <3>4. de'.pc = 0
      BY <2>3, <3>3 DEF Decoded
    <3>5. de'.control # ZeroSignals
      <4>1. Fetched.class = "OPIMM"
        BY <1>1, <1>6, DecodeAssumption DEF Fetched, ResetInv
      <4>2. de'.control.WBSel = "ALU"
        BY <3>3, <4>1, <1>1, <1>6, NopSignals
           DEF Decoded, ControlOut, Fetched, ResetInv, Signals
      <4> QED
        BY <4>2 DEF ZeroSignals
    <3>6. NopInEX'
      BY <1>1, <1>5, <1>6, <3>5, BubbleFields
    <3>7. de'.control = Signals(Decode[NOP])
      BY <3>6, NopRecord DEF NopInEX
    <3> QED
      BY <2>1, <2>3, <3>4, <3>7, NopInEXFields
  <2> QED
    BY <1>1, <1>6, <2>2, <2>3 DEF ResetInv
\* The fourth and the fifth: it moves on through MEM and WB.
<1>7. held >= 3 => em'.pc = 0 /\ mw'.control = de'.control
                   /\ mw'.alu = 0 /\ mw'.addrD = 0
  BY <1>1, <1>4, <1>6 DEF ResetInv
<1>8. held >= 4 => mw'.pc = 0
  BY <1>1, <1>4 DEF ResetInv
<1>9. /\ held' >= 2 => held >= 1
      /\ held' >= 3 => held >= 2
      /\ held' >= 4 => held >= 3
      /\ held' >= 5 => held >= 4
      /\ held' \in 0 .. HeldMax
  BY <1>1 DEF HeldMax
<1> QED
  BY <1>0, <1>3, <1>4, <1>5, <1>6, <1>7, <1>8, <1>9 DEF ResetInv

LEMMA ResetStep == ResetInv /\ [ResetNext]_<<core, held>> => ResetInv'
<1> SUFFICES ASSUME ResetInv, [ResetNext]_<<core, held>> PROVE ResetInv'
  OBVIOUS
<1>1. ASSUME NEW in \in Inputs, Clock(in), ~in.reset, held' = 0
      PROVE  ResetInv'
  BY <1>1, InputsAssumption, ClockType DEF ResetInv, HeldMax
<1>2. CASE UNCHANGED <<core, held>>
  <2>1. CoreTypeOK'
    BY <1>2 DEF core, CoreTypeOK, ResetInv
  <2> QED
    BY <1>2, <2>1 DEF core, ResetInv, NopInEX
<1> QED
  BY <1>1, <1>2, ResetClock DEF ResetNext

(***************************************************************************)
(* Five clocks of reset bring the core, whatever it was doing, to a state  *)
(* it may start in: see ResetSettles.                                      *)
(***************************************************************************)
THEOREM FiveClocksSettle == ResetSpec => []ResetSettles
<1>1. ResetInv => ResetSettles
  <2> SUFFICES ASSUME ResetInv, held = HeldMax PROVE ResetSettles
    BY DEF ResetSettles
  <2>1. /\ pc = 0 /\ regs = [r \in RegIdx |-> 0] /\ fd.inst = NOP
        /\ de = Bubble \/ (NopInEX /\ fd.pc = 0)
        /\ de.pc = 0
        /\ em.control = de.control
        /\ em.alu = 0 /\ em.dataB = 0 /\ em.addrD = 0 /\ em.pc = 0
        /\ mw.control = de.control /\ mw.alu = 0 /\ mw.addrD = 0
        /\ mw.pc = 0
    BY DEF ResetInv, HeldMax
  <2>2. de = Bubble \/ (de = NopDE /\ fd.pc = 0)
    <3>1. NopDE = [NopDE EXCEPT !.pc = 0]
      BY NopRecord
    <3> QED
      BY <2>1, <3>1 DEF NopInEX
  <2>3. em = [control |-> de.control, alu |-> 0, dataB |-> 0, pc |-> 0,
              addrD |-> 0]
    BY <2>1 DEF ResetInv, CoreTypeOK, EM
  <2>4. mw = [control |-> de.control, alu |-> 0, pc |-> 0,
              dmemDR |-> mw.dmemDR, addrD |-> 0]
    BY <2>1 DEF ResetInv, CoreTypeOK, MW
  <2> QED
    BY <2>1, <2>2, <2>3, <2>4 DEF ResetSettles
<1> QED
  BY <1>1, ResetInvInit, ResetStep, PTL DEF ResetSpec

(***************************************************************************)
(* Four are enough for what was in the pipeline to write nothing any more: *)
(* see NothingSurvivesReset.                                               *)
(***************************************************************************)
THEOREM FourClocksClear == ResetSpec => []NothingSurvivesReset
<1>1. ResetInv => NothingSurvivesReset
  <2> SUFFICES ASSUME ResetInv, held >= 4 PROVE NothingSurvivesReset
    BY DEF NothingSurvivesReset
  <2>1. /\ de = Bubble \/ NopInEX
        /\ em.control = de.control /\ em.addrD = 0 /\ mw.addrD = 0
    BY DEF ResetInv, HeldMax
  <2> QED
    BY <2>1, QuietEX DEF NothingSurvivesReset
<1> QED
  BY <1>1, ResetInvInit, ResetStep, PTL DEF ResetSpec

-----------------------------------------------------------------------------
(***************************************************************************)
(* The decoder.  The rows of the control table are taken apart by class;   *)
(* within one, the fields that are compared tell the rows apart, so a word *)
(* matches the pattern it was made from and no other.  An immediate is put *)
(* together from slices of the word, and followed bit by bit.              *)
(***************************************************************************)
RowClasses == {"LOAD", "STORE", "BRANCH", "OP", "OPIMM", "LUI", "AUIPC", "JAL", "JALR"}

\* The opcode of each class.
Opcode(class) ==
  CASE class = "LOAD"   -> <<0, 0, 0, 0, 0, 1, 1>> [] class = "STORE"  -> <<0, 1, 0, 0, 0, 1, 1>>
    [] class = "BRANCH" -> <<1, 1, 0, 0, 0, 1, 1>> [] class = "OP"     -> <<0, 1, 1, 0, 0, 1, 1>>
    [] class = "OPIMM"  -> <<0, 0, 1, 0, 0, 1, 1>> [] class = "LUI"    -> <<0, 1, 1, 0, 1, 1, 1>>
    [] class = "AUIPC"  -> <<0, 0, 1, 0, 1, 1, 1>> [] class = "JAL"    -> <<1, 1, 0, 1, 1, 1, 1>>
    [] class = "JALR"   -> <<1, 1, 0, 0, 1, 1, 1>>

\* A tuple is a function.
LEMMA TupleOf7 ==
  ASSUME NEW a, NEW b, NEW c, NEW d, NEW e, NEW f, NEW g
  PROVE  <<a, b, c, d, e, f, g>> = [i \in 1..7 |-> <<a, b, c, d, e, f, g>>[i]]
OBVIOUS
LEMMA TupleOf3 ==
  ASSUME NEW a, NEW b, NEW c
  PROVE  <<a, b, c>> = [i \in 1..3 |-> <<a, b, c>>[i]]
OBVIOUS


\* The rows of each class.
LoadRow(l)   == [Pattern("LOAD", <<0, 0, 0, 0, 0, 1, 1>>, l[3], Any) EXCEPT !.length = l[1], !.sign = l[2]]
StoreRow(s)  == [Pattern("STORE", <<0, 1, 0, 0, 0, 1, 1>>, s[2], Any) EXCEPT !.length = s[1]]
BranchRow(b) == [Pattern("BRANCH", <<1, 1, 0, 0, 0, 1, 1>>, b[2], Any) EXCEPT !.branch = b[1]]
OpRow(o)     == [Pattern("OP", <<0, 1, 1, 0, 0, 1, 1>>, o[2], o[3]) EXCEPT !.alu = o[1]]
ShiftRow(o)  == [Pattern("OPIMM", <<0, 0, 1, 0, 0, 1, 1>>, o[2], o[3]) EXCEPT !.alu = o[1]]
OtherRow(o)  == [Pattern("OPIMM", <<0, 0, 1, 0, 0, 1, 1>>, o[2], Any) EXCEPT !.alu = o[1]]
RegisterOps == Shifts \union Others \union {<<"SUB", <<0, 0, 0>>, Alternate>>}

LEMMA RowsAre ==
  ASSUME NEW row \in Rows
  PROVE  \/ \E l \in Loads : row = LoadRow(l)
         \/ \E s \in Stores : row = StoreRow(s)
         \/ \E b \in Branches : row = BranchRow(b)
         \/ \E o \in RegisterOps : row = OpRow(o)
         \/ \E o \in Shifts : row = ShiftRow(o)
         \/ \E o \in Others : row = OtherRow(o)
         \/ row \in {Pattern("LUI", <<0, 1, 1, 0, 1, 1, 1>>, Any, Any),
                     Pattern("AUIPC", <<0, 0, 1, 0, 1, 1, 1>>, Any, Any),
                     Pattern("JAL", <<1, 1, 0, 1, 1, 1, 1>>, Any, Any)}
         \/ row = Pattern("JALR", <<1, 1, 0, 0, 1, 1, 1>>, <<0, 0, 0>>, Any)
BY DEF Rows, LoadRow, StoreRow, BranchRow, OpRow, ShiftRow, OtherRow, RegisterOps


LEMMA OpcodesDiffer ==
  ASSUME NEW c \in RowClasses, NEW d \in RowClasses, Opcode(c) = Opcode(d)
  PROVE  c = d
<1>1. \A i \in 1..7 : Opcode(c)[i] = Opcode(d)[i]
  OBVIOUS
<1>2. /\ Opcode(c)[1] = Opcode(d)[1] /\ Opcode(c)[2] = Opcode(d)[2] /\ Opcode(c)[3] = Opcode(d)[3]
      /\ Opcode(c)[4] = Opcode(d)[4] /\ Opcode(c)[5] = Opcode(d)[5]
  BY <1>1
<1> QED
  BY <1>2 DEF Opcode, RowClasses

LEMMA RowClass ==
  ASSUME NEW row \in Rows
  PROVE  /\ row.class \in RowClasses /\ row.opcode = Opcode(row.class)
         /\ row.class = "LOAD" => \E l \in Loads : row = LoadRow(l)
         /\ row.class = "STORE" => \E l \in Stores : row = StoreRow(l)
         /\ row.class = "BRANCH" => \E l \in Branches : row = BranchRow(l)
         /\ row.class = "OP" => \E l \in RegisterOps : row = OpRow(l)
         /\ row.class = "OPIMM" => (\E o \in Shifts : row = ShiftRow(o)) \/ (\E o \in Others : row = OtherRow(o))
         /\ row.class = "LUI" => row = Pattern("LUI", <<0, 1, 1, 0, 1, 1, 1>>, Any, Any)
         /\ row.class = "AUIPC" => row = Pattern("AUIPC", <<0, 0, 1, 0, 1, 1, 1>>, Any, Any)
         /\ row.class = "JAL" => row = Pattern("JAL", <<1, 1, 0, 1, 1, 1, 1>>, Any, Any)
         /\ row.class = "JALR" => row = Pattern("JALR", <<1, 1, 0, 0, 1, 1, 1>>, <<0, 0, 0>>, Any)
<1> USE DEF Pattern, RowClasses, Opcode
<1>1. CASE \E l \in Loads : row = LoadRow(l)
  BY <1>1 DEF LoadRow
<1>2. CASE \E l \in Stores : row = StoreRow(l)
  BY <1>2 DEF StoreRow
<1>3. CASE \E l \in Branches : row = BranchRow(l)
  BY <1>3 DEF BranchRow
<1>4. CASE \E o \in RegisterOps : row = OpRow(o)
  BY <1>4 DEF OpRow
<1>5. CASE \E o \in Shifts : row = ShiftRow(o)
  BY <1>5 DEF ShiftRow
<1>6. CASE \E o \in Others : row = OtherRow(o)
  BY <1>6 DEF OtherRow
<1> QED
  BY <1>1, <1>2, <1>3, <1>4, <1>5, <1>6, RowsAre

LEMMA Fields3 ==
  /\ \A l \in Loads, k \in Loads : l[3] = k[3] => l = k
  /\ \A l \in Stores, k \in Stores : l[2] = k[2] => l = k
  /\ \A l \in Branches, k \in Branches : l[2] = k[2] => l = k
  /\ \A l \in RegisterOps, k \in RegisterOps : l[2] = k[2] /\ l[3] = k[3] => l = k
  /\ \A l \in Shifts, k \in Shifts : l[2] = k[2] /\ l[3] = k[3] => l = k
  /\ \A l \in Others, k \in Others : l[2] = k[2] => l = k
  /\ \A l \in Shifts, k \in Others : l[2] # k[2]
<1>1. \A l \in Loads, k \in Loads : l[3] = k[3] => l = k
  BY DEF Loads
<1>2. \A l \in Stores, k \in Stores : l[2] = k[2] => l = k
  BY DEF Stores
<1>3. \A l \in Branches, k \in Branches : l[2] = k[2] => l = k
  BY DEF Branches
<1>4. \A l \in RegisterOps, k \in RegisterOps : l[2] = k[2] /\ l[3] = k[3] => l = k
  BY DEF RegisterOps, Shifts, Others, Plain, Alternate
<1>5. \A l \in Shifts, k \in Shifts : l[2] = k[2] /\ l[3] = k[3] => l = k
  BY DEF Shifts, Plain, Alternate
<1>6. \A l \in Others, k \in Others : l[2] = k[2] => l = k
  BY DEF Others
<1>7. \A l \in Shifts, k \in Others : l[2] # k[2]
  BY DEF Others, Shifts
<1> QED
  BY <1>1, <1>2, <1>3, <1>4, <1>5, <1>6, <1>7

\* The fields that are compared, where a row has them.
LEMMA Compared ==
  /\ \A l \in Loads : LoadRow(l).funct3 = l[3] /\ l[3] # <<>> /\ LoadRow(l).funct7 = <<>>
  /\ \A l \in Stores : StoreRow(l).funct3 = l[2] /\ l[2] # <<>> /\ StoreRow(l).funct7 = <<>>
  /\ \A l \in Branches : BranchRow(l).funct3 = l[2] /\ l[2] # <<>> /\ BranchRow(l).funct7 = <<>>
  /\ \A l \in RegisterOps : OpRow(l).funct3 = l[2] /\ l[2] # <<>> /\ OpRow(l).funct7 = l[3] /\ l[3] # <<>>
  /\ \A l \in Shifts : ShiftRow(l).funct3 = l[2] /\ l[2] # <<>> /\ ShiftRow(l).funct7 = l[3] /\ l[3] # <<>>
  /\ \A l \in Others : OtherRow(l).funct3 = l[2] /\ l[2] # <<>> /\ OtherRow(l).funct7 = <<>>
<1> USE DEF Pattern, Any
<1>1. \A l \in Loads : LoadRow(l).funct3 = l[3] /\ l[3] # <<>> /\ LoadRow(l).funct7 = <<>>
  BY DEF Loads, LoadRow
<1>2. \A l \in Stores : StoreRow(l).funct3 = l[2] /\ l[2] # <<>> /\ StoreRow(l).funct7 = <<>>
  BY DEF Stores, StoreRow
<1>3. \A l \in Branches : BranchRow(l).funct3 = l[2] /\ l[2] # <<>> /\ BranchRow(l).funct7 = <<>>
  BY DEF Branches, BranchRow
<1>4. \A l \in RegisterOps : OpRow(l).funct3 = l[2] /\ l[2] # <<>> /\ OpRow(l).funct7 = l[3] /\ l[3] # <<>>
  BY DEF RegisterOps, Shifts, Others, Plain, Alternate, OpRow
<1>5. \A l \in Shifts : ShiftRow(l).funct3 = l[2] /\ l[2] # <<>> /\ ShiftRow(l).funct7 = l[3] /\ l[3] # <<>>
  BY DEF Shifts, Plain, Alternate, ShiftRow
<1>6. \A l \in Others : OtherRow(l).funct3 = l[2] /\ l[2] # <<>> /\ OtherRow(l).funct7 = <<>>
  BY DEF Others, OtherRow
<1> QED
  BY <1>1, <1>2, <1>3, <1>4, <1>5, <1>6

\* Rows that agree where both have something to compare are one row.
LEMMA OneRow ==
  ASSUME NEW r \in Rows, NEW row \in Rows, r.opcode = row.opcode,
         r.funct3 = row.funct3 \/ r.funct3 = <<>> \/ row.funct3 = <<>>,
         r.funct7 = row.funct7 \/ r.funct7 = <<>> \/ row.funct7 = <<>>
  PROVE  r = row
<1>1. r.class = row.class /\ row.class \in RowClasses
  BY RowClass, OpcodesDiffer
<1>2. CASE row.class = "LOAD"
  BY <1>1, <1>2, RowClass, Compared, Fields3
<1>3. CASE row.class = "STORE"
  BY <1>1, <1>3, RowClass, Compared, Fields3
<1>4. CASE row.class = "BRANCH"
  BY <1>1, <1>4, RowClass, Compared, Fields3
<1>5. CASE row.class = "OP"
  BY <1>1, <1>5, RowClass, Compared, Fields3
<1>6. CASE row.class = "OPIMM"
  BY <1>1, <1>6, RowClass, Compared, Fields3
<1>7. CASE row.class \in {"LUI", "AUIPC", "JAL", "JALR"}
  BY <1>1, <1>7, RowClass
<1> QED
  BY <1>1, <1>2, <1>3, <1>4, <1>5, <1>6, <1>7 DEF RowClasses

\* The parts of a pattern have three and seven bits.
LEMMA Parts ==
  ASSUME NEW row \in Rows
  PROVE  /\ row.opcode = [i \in 1..7 |-> row.opcode[i]]
         /\ row.funct3 # <<>> => row.funct3 = [i \in 1..3 |-> row.funct3[i]]
         /\ row.funct7 # <<>> => row.funct7 = [i \in 1..7 |-> row.funct7[i]]
<1>1. \A l \in Loads : l[3] = [i \in 1..3 |-> l[3][i]]
  BY DEF Loads
<1>2. \A l \in Stores : l[2] = [i \in 1..3 |-> l[2][i]]
  BY DEF Stores
<1>3. \A l \in Branches : l[2] = [i \in 1..3 |-> l[2][i]]
  BY DEF Branches
<1>4. \A l \in RegisterOps : l[2] = [i \in 1..3 |-> l[2][i]] /\ l[3] = [i \in 1..7 |-> l[3][i]]
  BY DEF RegisterOps, Shifts, Others, Plain, Alternate
<1>5. \A l \in Shifts : l[2] = [i \in 1..3 |-> l[2][i]] /\ l[3] = [i \in 1..7 |-> l[3][i]]
  BY <1>4 DEF RegisterOps
<1>6. \A l \in Others : l[2] = [i \in 1..3 |-> l[2][i]]
  BY <1>4 DEF RegisterOps
<1>7. row.opcode = [i \in 1..7 |-> row.opcode[i]]
  BY RowClass, TupleOf7 DEF Opcode, RowClasses
<1>8. /\ row.funct3 # <<>> => row.funct3 = [i \in 1..3 |-> row.funct3[i]]
      /\ row.funct7 # <<>> => row.funct7 = [i \in 1..7 |-> row.funct7[i]]
  <2>1. CASE row.class = "LOAD"
    BY <2>1, <1>1, RowClass, Compared
  <2>2. CASE row.class = "STORE"
    BY <2>2, <1>2, RowClass, Compared
  <2>3. CASE row.class = "BRANCH"
    BY <2>3, <1>3, RowClass, Compared
  <2>4. CASE row.class = "OP"
    BY <2>4, <1>4, RowClass, Compared
  <2>5. CASE row.class = "OPIMM"
    BY <2>5, <1>5, <1>6, RowClass, Compared
  <2>6. CASE row.class \in {"LUI", "AUIPC", "JAL", "JALR"}
    <3>1. row.funct7 = <<>> /\ (row.class # "JALR" => row.funct3 = <<>>)
      BY <2>6, RowClass DEF Pattern, Any
    <3>2. row.class = "JALR" => row.funct3 = <<0, 0, 0>>
      BY RowClass DEF Pattern
    <3> QED
      BY <3>1, <3>2, <2>6, TupleOf3
  <2> QED
    BY <2>1, <2>2, <2>3, <2>4, <2>5, <2>6, RowClass DEF RowClasses
<1> QED
  BY <1>7, <1>8

\* A word matches the pattern it was made from, and no other.
LEMMA MatchesOne ==
  ASSUME NEW row \in Rows, NEW free
  PROVE  \A r \in Rows : RowMatches(r, WordOf(row, free)) <=> r = row
<1> DEFINE w == WordOf(row, free)
<1>1. /\ \A i \in 1..7 : w[7 - i] = row.opcode[i]
      /\ row.funct3 # <<>> => \A i \in 1..3 : w[15 - i] = row.funct3[i]
      /\ row.funct7 # <<>> => \A i \in 1..7 : w[32 - i] = row.funct7[i]
  BY DEF WordOf, Any
<1> HIDE DEF w
<1>2. /\ Slice(w, 6, 0) = [i \in 1..7 |-> w[7 - i]]
      /\ Slice(w, 14, 12) = [i \in 1..3 |-> w[15 - i]]
      /\ Slice(w, 31, 25) = [i \in 1..7 |-> w[32 - i]]
  BY DEF Slice
<1>3. /\ Slice(w, 6, 0) = row.opcode
      /\ row.funct3 # <<>> => Slice(w, 14, 12) = row.funct3
      /\ row.funct7 # <<>> => Slice(w, 31, 25) = row.funct7
  BY <1>1, <1>2, Parts
<1>4. RowMatches(row, w)
  BY <1>3 DEF RowMatches, Any
<1>5. ASSUME NEW r \in Rows, RowMatches(r, w)
      PROVE  r = row
  BY <1>3, <1>5, OneRow DEF RowMatches, Any
<1> QED
  BY <1>4, <1>5 DEF w

(***************************************************************************)
(* What is put together from slices, by the bits of the result, the lowest *)
(* of which is number 0.                                                   *)
(***************************************************************************)
\* The bits of a word, and a zero.
BitsOf(w) == {w[p] : p \in 0..31} \union {0}

Spells(s, S, n, f) == s \in Seq(S) /\ n \in Nat /\ Len(s) = n /\ \A k \in 0..(n - 1) : s[n - k] = f[k]

\* The bits of a slice, from its lowest.
Places(w, low, n) == [k \in 0..(n - 1) |-> w[low + k]]

LEMMA CutSpells ==
  ASSUME NEW w, NEW high \in 0..31, NEW low \in 0..high
  PROVE  Spells(Slice(w, high, low), BitsOf(w), high - low + 1, Places(w, low, high - low + 1))
<1> DEFINE n == high - low + 1
           s == Slice(w, high, low)
<1>1. s = [i \in 1..n |-> w[high + 1 - i]] /\ n \in Nat
  BY DEF Slice
<1>2. \A i \in 1..n : s[i] = w[high + 1 - i] /\ high + 1 - i \in 0..31
  BY <1>1
<1>3. \A i \in 1..n : s[i] \in BitsOf(w)
  BY <1>2 DEF BitsOf
<1>4. DOMAIN s = 1..n /\ s = [i \in 1..n |-> s[i]]
  BY <1>1
<1>5. \A k \in 0..(n - 1) : s[n - k] = w[low + k]
  <2>1. ASSUME NEW k \in 0..(n - 1)
        PROVE  s[n - k] = w[low + k]
    <3>1. n - k \in 1..n /\ high + 1 - (n - k) = low + k
      OBVIOUS
    <3> HIDE DEF s, n
    <3> QED
      BY <3>1, <1>2
  <2> QED
    BY <2>1
<1> HIDE DEF n, s
<1>6. s \in [1..n -> BitsOf(w)]
  BY <1>3, <1>4
<1>7. s \in Seq(BitsOf(w)) /\ Len(s) = n
  BY <1>1, <1>4, <1>6
<1>8. Spells(s, BitsOf(w), n, Places(w, low, n))
  BY <1>1, <1>5, <1>7 DEF Spells, Places
<1> QED
  BY <1>8 DEF n, s

LEMMA Cuts ==
  ASSUME NEW w
  PROVE  /\ Spells(Slice(w, 31, 20), BitsOf(w), 12, Places(w, 20, 12))
         /\ Spells(Slice(w, 31, 25), BitsOf(w), 7, Places(w, 25, 7))
         /\ Spells(Slice(w, 11, 7), BitsOf(w), 5, Places(w, 7, 5))
         /\ Spells(Slice(w, 31, 31), BitsOf(w), 1, Places(w, 31, 1))
         /\ Spells(Slice(w, 7, 7), BitsOf(w), 1, Places(w, 7, 1))
         /\ Spells(Slice(w, 30, 25), BitsOf(w), 6, Places(w, 25, 6))
         /\ Spells(Slice(w, 11, 8), BitsOf(w), 4, Places(w, 8, 4))
         /\ Spells(Slice(w, 31, 12), BitsOf(w), 20, Places(w, 12, 20))
         /\ Spells(Slice(w, 19, 12), BitsOf(w), 8, Places(w, 12, 8))
         /\ Spells(Slice(w, 20, 20), BitsOf(w), 1, Places(w, 20, 1))
         /\ Spells(Slice(w, 24, 21), BitsOf(w), 4, Places(w, 21, 4))
<1>1. Spells(Slice(w, 31, 20), BitsOf(w), 31 - 20 + 1, Places(w, 20, 31 - 20 + 1))
  BY CutSpells
<1>2. Spells(Slice(w, 31, 25), BitsOf(w), 31 - 25 + 1, Places(w, 25, 31 - 25 + 1))
  BY CutSpells
<1>3. Spells(Slice(w, 11, 7), BitsOf(w), 11 - 7 + 1, Places(w, 7, 11 - 7 + 1))
  BY CutSpells
<1>4. Spells(Slice(w, 31, 31), BitsOf(w), 31 - 31 + 1, Places(w, 31, 31 - 31 + 1))
  BY CutSpells
<1>5. Spells(Slice(w, 7, 7), BitsOf(w), 7 - 7 + 1, Places(w, 7, 7 - 7 + 1))
  BY CutSpells
<1>6. Spells(Slice(w, 30, 25), BitsOf(w), 30 - 25 + 1, Places(w, 25, 30 - 25 + 1))
  BY CutSpells
<1>7. Spells(Slice(w, 11, 8), BitsOf(w), 11 - 8 + 1, Places(w, 8, 11 - 8 + 1))
  BY CutSpells
<1>8. Spells(Slice(w, 31, 12), BitsOf(w), 31 - 12 + 1, Places(w, 12, 31 - 12 + 1))
  BY CutSpells
<1>9. Spells(Slice(w, 19, 12), BitsOf(w), 19 - 12 + 1, Places(w, 12, 19 - 12 + 1))
  BY CutSpells
<1>10. Spells(Slice(w, 20, 20), BitsOf(w), 20 - 20 + 1, Places(w, 20, 20 - 20 + 1))
  BY CutSpells
<1>11. Spells(Slice(w, 24, 21), BitsOf(w), 24 - 21 + 1, Places(w, 21, 24 - 21 + 1))
  BY CutSpells
<1> QED
  BY <1>1, <1>2, <1>3, <1>4, <1>5, <1>6, <1>7, <1>8, <1>9, <1>10, <1>11

\* One sequence behind another.
Puts(u, s, m, t, n) == \A i \in 1..(m + n) : u[i] = IF i <= m THEN s[i] ELSE t[i - m]

LEMMA BehindIs ==
  ASSUME NEW S, NEW m \in Nat, NEW n \in Nat,
         NEW s \in Seq(S), NEW t \in Seq(S), Len(s) = m, Len(t) = n
  PROVE  s \o t \in Seq(S) /\ Len(s \o t) = m + n /\ Puts(s \o t, s, m, t, n)
BY ConcatProperties DEF Puts

\* h is f above n bits of g.
Above(h, f, m, g, n) == /\ \A k \in 0..(n - 1) : h[k] = g[k]
                        /\ \A k \in n..(m + n - 1) : h[k] = f[k - n]

LEMMA Joined ==
  ASSUME NEW S, NEW m \in Nat, NEW n \in Nat, NEW s, NEW f, Spells(s, S, m, f),
         NEW t, NEW g, Spells(t, S, n, g), NEW h, Above(h, f, m, g, n)
  PROVE  Spells(s \o t, S, m + n, h)
<1>1. s \in Seq(S) /\ Len(s) = m /\ \A k \in 0..(m - 1) : s[m - k] = f[k]
  BY DEF Spells
<1>2. t \in Seq(S) /\ Len(t) = n /\ \A k \in 0..(n - 1) : t[n - k] = g[k]
  BY DEF Spells
<1>3. s \in Seq(S) /\ t \in Seq(S) /\ Len(s) = m /\ Len(t) = n
  BY <1>1, <1>2
<1> DEFINE u == s \o t
<1>4. u \in Seq(S) /\ Len(u) = m + n
  BY <1>3, BehindIs
<1>5. Puts(u, s, m, t, n)
  BY <1>3, BehindIs
<1> HIDE DEF u
<1>7. ASSUME NEW k \in 0..(m + n - 1)
      PROVE  u[m + n - k] = h[k]
  <2>1. CASE k < n
    <3> DEFINE i == m + n - k
    <3>1. i \in 1..(m + n) /\ ~(i <= m) /\ i - m = n - k /\ k \in 0..(n - 1)
      BY <2>1
    <3> HIDE DEF i
    <3>2. u[i] = t[i - m]
      BY <3>1, <1>5 DEF Puts
    <3>3. u[i] = t[n - k]
      BY <3>1, <3>2
    <3>4. t[n - k] = h[k]
      BY <3>1, <1>2 DEF Above
    <3> QED
      BY <3>3, <3>4 DEF i
  <2>2. CASE k >= n
    <3> DEFINE i == m + n - k
    <3>1. i \in 1..(m + n) /\ i <= m /\ i = m - (k - n) /\ k - n \in 0..(m - 1) /\ k \in n..(m + n - 1)
      BY <2>2
    <3> HIDE DEF i
    <3>2. u[i] = s[i]
      BY <3>1, <1>5 DEF Puts
    <3>3. s[i] = h[k]
      BY <3>1, <1>1 DEF Above
    <3> QED
      BY <3>2, <3>3 DEF i
  <2>3. k < n \/ k >= n
    OBVIOUS
  <2> QED
    BY <2>1, <2>2, <2>3
<1>8. Spells(u, S, m + n, h)
  BY <1>4, <1>7 DEF Spells
<1> QED
  BY <1>8 DEF u

LEMMA Behind ==
  ASSUME NEW S, NEW m \in Nat, NEW n \in Nat, NEW l \in Nat, l = m + n,
         NEW s, NEW f, Spells(s, S, m, f), NEW t, NEW g, Spells(t, S, n, g),
         NEW h, Above(h, f, m, g, n)
  PROVE  Spells(s \o t, S, l, h)
<1>1. Spells(s \o t, S, m + n, h)
  BY Joined, Zenon
<1> QED
  BY <1>1, Zenon

\* The highest bit is repeated above.
LEMMA SignedIs ==
  ASSUME NEW n \in Nat \ {0}, NEW S, NEW s, NEW f, Spells(s, S, n, f)
  PROVE  \A k \in 0..31 : Extended(s)[k] = IF k < n THEN f[k] ELSE f[n - 1]
<1>1. n \in Nat /\ Len(s) = n /\ \A k \in 0..(n - 1) : s[n - k] = f[k]
  BY DEF Spells
<1>2. n - 1 \in 0..(n - 1) /\ n - (n - 1) = 1
  BY <1>1
<1>3. s[1] = f[n - 1]
  BY <1>1, <1>2
<1>4. \A k \in 0..31 : Extended(s)[k] = IF k < n THEN s[n - k] ELSE s[1]
  BY <1>1 DEF Extended
<1>5. ASSUME NEW k \in 0..31
      PROVE  Extended(s)[k] = IF k < n THEN f[k] ELSE f[n - 1]
  <2>1. CASE k < n
    <3>1. k \in 0..(n - 1)
      BY <2>1
    <3> QED
      BY <2>1, <3>1, <1>1, <1>4
  <2>2. CASE ~(k < n)
    BY <2>2, <1>3, <1>4
  <2> QED
    BY <2>1, <2>2
<1> QED
  BY <1>5

\* The places that the bits of each immediate come from.
LEMMA ImmediateI ==
  ASSUME NEW w
  PROVE  \A k \in 0..31 : ImmGen(w, "I")[k] = IF k < 12 THEN w[k + 20] ELSE w[31]
<1>1. ImmGen(w, "I") = Extended(Slice(w, 31, 20))
  BY DEF ImmGen
<1>2. \A k \in 0..31 : Extended(Slice(w, 31, 20))[k] =
                         IF k < 12 THEN Places(w, 20, 12)[k] ELSE Places(w, 20, 12)[12 - 1]
  BY Cuts, SignedIs
<1>3. ASSUME NEW k \in 0..31
      PROVE  ImmGen(w, "I")[k] = IF k < 12 THEN w[k + 20] ELSE w[31]
  BY <1>1, <1>2 DEF Places
<1> QED
  BY <1>3

LEMMA ImmediateS ==
  ASSUME NEW w
  PROVE  \A k \in 0..31 : ImmGen(w, "S")[k] =
           CASE k < 5 -> w[k + 7] [] k \in 5..11 -> w[k + 20] [] OTHER -> w[31]
<1> DEFINE s == Slice(w, 31, 25) \o Slice(w, 11, 7)
           h == [k \in 0..11 |-> IF k < 5 THEN w[k + 7] ELSE w[k + 20]]
<1>1. ImmGen(w, "S") = Extended(s)
  BY DEF ImmGen
<1>2. Above(h, Places(w, 25, 7), 7, Places(w, 7, 5), 5)
  BY DEF Above, Places
<1>3. \A k \in 0..11 : h[k] = IF k < 5 THEN w[k + 7] ELSE w[k + 20]
  OBVIOUS
<1> HIDE DEF h
<1>4. Spells(s, BitsOf(w), 12, h)
  <2>1. 7 \in Nat /\ 5 \in Nat /\ 12 \in Nat /\ 12 = 7 + 5
    OBVIOUS
  <2>2. /\ Spells(Slice(w, 31, 25), BitsOf(w), 7, Places(w, 25, 7))
        /\ Spells(Slice(w, 11, 7), BitsOf(w), 5, Places(w, 7, 5))
    BY Cuts
  <2> QED
    BY <2>1, <2>2, <1>2, Behind, Zenon
<1> HIDE DEF s
<1>5. \A k \in 0..31 : Extended(s)[k] = IF k < 12 THEN h[k] ELSE h[12 - 1]
  BY <1>4, SignedIs
<1>6. ASSUME NEW k \in 0..31
      PROVE  ImmGen(w, "S")[k] = CASE k < 5 -> w[k + 7] [] k \in 5..11 -> w[k + 20] [] OTHER -> w[31]
  BY <1>1, <1>3, <1>5
<1> QED
  BY <1>6

LEMMA ZeroSpells ==
  ASSUME NEW w
  PROVE  /\ Spells(<<0>>, BitsOf(w), 1, [k \in 0..0 |-> 0])
         /\ Spells([i \in 1..12 |-> 0], BitsOf(w), 12, [k \in 0..11 |-> 0])
<1>1. 0 \in BitsOf(w)
  BY DEF BitsOf
<1>2. <<0>> \in Seq(BitsOf(w)) /\ [i \in 1..12 |-> 0] \in Seq(BitsOf(w))
  BY <1>1
<1> QED
  BY <1>2 DEF Spells

LEMMA ImmediateU ==
  ASSUME NEW w
  PROVE  \A k \in 0..31 : ImmGen(w, "U")[k] = IF k < 12 THEN 0 ELSE w[k]
<1> DEFINE s == Slice(w, 31, 12) \o [i \in 1..12 |-> 0]
           h == [k \in 0..31 |-> IF k < 12 THEN 0 ELSE w[k]]
           zero == [k \in 0..11 |-> 0]
<1>1. ImmGen(w, "U") = Extended(s)
  BY DEF ImmGen
<1>2. Above(h, Places(w, 12, 20), 20, zero, 12)
  BY DEF Above, Places
<1>3. \A k \in 0..31 : h[k] = IF k < 12 THEN 0 ELSE w[k]
  OBVIOUS
<1>4. /\ Spells(Slice(w, 31, 12), BitsOf(w), 20, Places(w, 12, 20))
      /\ Spells([i \in 1..12 |-> 0], BitsOf(w), 12, zero)
  BY Cuts, ZeroSpells
<1> HIDE DEF h, zero
<1>5. Spells(s, BitsOf(w), 32, h)
  <2>1. 20 \in Nat /\ 12 \in Nat /\ 32 \in Nat /\ 32 = 20 + 12
    OBVIOUS
  <2> QED
    BY <2>1, <1>2, <1>4, Behind, Zenon
<1> HIDE DEF s
<1>6. \A k \in 0..31 : Extended(s)[k] = IF k < 32 THEN h[k] ELSE h[32 - 1]
  BY <1>5, SignedIs
<1>7. ASSUME NEW k \in 0..31
      PROVE  ImmGen(w, "U")[k] = IF k < 12 THEN 0 ELSE w[k]
  BY <1>1, <1>3, <1>6
<1> QED
  BY <1>7

LEMMA ImmediateB ==
  ASSUME NEW w
  PROVE  \A k \in 0..31 : ImmGen(w, "B")[k] =
           CASE k = 0 -> 0 [] k \in 1..4 -> w[k + 7] [] k \in 5..10 -> w[k + 20] [] k = 11 -> w[7] [] OTHER -> w[31]
<1> DEFINE s1 == Slice(w, 31, 31)
           s2 == s1 \o Slice(w, 7, 7)
           s3 == s2 \o Slice(w, 30, 25)
           s4 == s3 \o Slice(w, 11, 8)
           s5 == s4 \o <<0>>
           F(k) == CASE k = 0 -> 0 [] k \in 1..4 -> w[k + 7] [] k \in 5..10 -> w[k + 20] [] k = 11 -> w[7] [] OTHER -> w[31]
           h1 == [k \in 0..0 |-> F(k + 12)]
           h2 == [k \in 0..1 |-> F(k + 11)]
           h3 == [k \in 0..7 |-> F(k + 5)]
           h4 == [k \in 0..11 |-> F(k + 1)]
           h5 == [k \in 0..12 |-> F(k)]
           zero == [k \in 0..0 |-> 0]
<1>1. ImmGen(w, "B") = Extended(s5)
  BY DEF ImmGen
<1>2. Places(w, 31, 1) = h1
  BY DEF Places
<1>3. Above(h2, h1, 1, Places(w, 7, 1), 1)
  BY DEF Above, Places
<1>4. Above(h3, h2, 2, Places(w, 25, 6), 6)
  BY DEF Above, Places
<1>5. Above(h4, h3, 8, Places(w, 8, 4), 4)
  BY DEF Above, Places
<1>6. Above(h5, h4, 12, zero, 1)
  BY DEF Above, Places
<1>7. \A k \in 0..12 : h5[k] = F(k)
  OBVIOUS
<1>8. /\ Spells(Slice(w, 31, 31), BitsOf(w), 1, h1)
      /\ Spells(Slice(w, 7, 7), BitsOf(w), 1, Places(w, 7, 1))
      /\ Spells(Slice(w, 30, 25), BitsOf(w), 6, Places(w, 25, 6))
      /\ Spells(Slice(w, 11, 8), BitsOf(w), 4, Places(w, 8, 4))
      /\ Spells(<<0>>, BitsOf(w), 1, zero)
  BY <1>2, Cuts, ZeroSpells
<1> HIDE DEF h1, h2, h3, h4, h5, zero
<1>9. /\ 1 \in Nat /\ 2 \in Nat /\ 4 \in Nat /\ 6 \in Nat /\ 8 \in Nat /\ 12 \in Nat /\ 13 \in Nat
      /\ 2 = 1 + 1 /\ 8 = 2 + 6 /\ 12 = 8 + 4 /\ 13 = 12 + 1
  OBVIOUS
<1>10. Spells(s2, BitsOf(w), 2, h2)
  BY <1>3, <1>8, <1>9, Behind, Zenon
<1>11. Spells(s3, BitsOf(w), 8, h3)
  BY <1>4, <1>8, <1>9, <1>10, Behind, Zenon
<1>12. Spells(s4, BitsOf(w), 12, h4)
  BY <1>5, <1>8, <1>9, <1>11, Behind, Zenon
<1>13. Spells(s5, BitsOf(w), 13, h5)
  BY <1>6, <1>8, <1>9, <1>12, Behind, Zenon
<1> HIDE DEF s5
<1>14. \A k \in 0..31 : Extended(s5)[k] = IF k < 13 THEN h5[k] ELSE h5[13 - 1]
  BY <1>13, SignedIs
<1>15. ASSUME NEW k \in 0..31
      PROVE  ImmGen(w, "B")[k] =
               CASE k = 0 -> 0 [] k \in 1..4 -> w[k + 7] [] k \in 5..10 -> w[k + 20] [] k = 11 -> w[7] [] OTHER -> w[31]
  BY <1>1, <1>7, <1>14
<1> QED
  BY <1>15

LEMMA ImmediateJ ==
  ASSUME NEW w
  PROVE  \A k \in 0..31 : ImmGen(w, "J")[k] =
           CASE k = 0 -> 0 [] k \in 1..10 -> w[k + 20] [] k = 11 -> w[20] [] k \in 12..19 -> w[k] [] OTHER -> w[31]
<1> DEFINE s1 == Slice(w, 31, 31)
           s2 == s1 \o Slice(w, 19, 12)
           s3 == s2 \o Slice(w, 20, 20)
           s4 == s3 \o Slice(w, 30, 25)
           s5 == s4 \o Slice(w, 24, 21)
           s6 == s5 \o <<0>>
           F(k) == CASE k = 0 -> 0 [] k \in 1..10 -> w[k + 20] [] k = 11 -> w[20] [] k \in 12..19 -> w[k] [] OTHER -> w[31]
           h1 == [k \in 0..0 |-> F(k + 20)]
           h2 == [k \in 0..8 |-> F(k + 12)]
           h3 == [k \in 0..9 |-> F(k + 11)]
           h4 == [k \in 0..15 |-> F(k + 5)]
           h5 == [k \in 0..19 |-> F(k + 1)]
           h6 == [k \in 0..20 |-> F(k)]
           zero == [k \in 0..0 |-> 0]
<1>1. ImmGen(w, "J") = Extended(s6)
  BY DEF ImmGen
<1>2. Places(w, 31, 1) = h1
  BY DEF Places
<1>3. Above(h2, h1, 1, Places(w, 12, 8), 8)
  BY DEF Above, Places
<1>4. Above(h3, h2, 9, Places(w, 20, 1), 1)
  BY DEF Above, Places
<1>5. Above(h4, h3, 10, Places(w, 25, 6), 6)
  BY DEF Above, Places
<1>6. Above(h5, h4, 16, Places(w, 21, 4), 4)
  BY DEF Above, Places
<1>7. Above(h6, h5, 20, zero, 1)
  BY DEF Above, Places
<1>8. \A k \in 0..20 : h6[k] = F(k)
  OBVIOUS
<1>9. /\ Spells(Slice(w, 31, 31), BitsOf(w), 1, h1)
      /\ Spells(Slice(w, 19, 12), BitsOf(w), 8, Places(w, 12, 8))
      /\ Spells(Slice(w, 20, 20), BitsOf(w), 1, Places(w, 20, 1))
      /\ Spells(Slice(w, 30, 25), BitsOf(w), 6, Places(w, 25, 6))
      /\ Spells(Slice(w, 24, 21), BitsOf(w), 4, Places(w, 21, 4))
      /\ Spells(<<0>>, BitsOf(w), 1, zero)
  BY <1>2, Cuts, ZeroSpells
<1> HIDE DEF h1, h2, h3, h4, h5, h6, zero
<1>10. /\ 1 \in Nat /\ 4 \in Nat /\ 6 \in Nat /\ 8 \in Nat /\ 9 \in Nat /\ 10 \in Nat /\ 16 \in Nat /\ 20 \in Nat /\ 21 \in Nat
      /\ 9 = 1 + 8 /\ 10 = 9 + 1 /\ 16 = 10 + 6 /\ 20 = 16 + 4 /\ 21 = 20 + 1
  OBVIOUS
<1>11. Spells(s2, BitsOf(w), 9, h2)
  BY <1>3, <1>9, <1>10, Behind, Zenon
<1>12. Spells(s3, BitsOf(w), 10, h3)
  BY <1>4, <1>9, <1>10, <1>11, Behind, Zenon
<1>13. Spells(s4, BitsOf(w), 16, h4)
  BY <1>5, <1>9, <1>10, <1>12, Behind, Zenon
<1>14. Spells(s5, BitsOf(w), 20, h5)
  BY <1>6, <1>9, <1>10, <1>13, Behind, Zenon
<1>15. Spells(s6, BitsOf(w), 21, h6)
  BY <1>7, <1>9, <1>10, <1>14, Behind, Zenon
<1> HIDE DEF s6
<1>16. \A k \in 0..31 : Extended(s6)[k] = IF k < 21 THEN h6[k] ELSE h6[21 - 1]
  BY <1>15, SignedIs
<1>17. ASSUME NEW k \in 0..31
      PROVE  ImmGen(w, "J")[k] =
               CASE k = 0 -> 0 [] k \in 1..10 -> w[k + 20] [] k = 11 -> w[20] [] k \in 12..19 -> w[k] [] OTHER -> w[31]
  BY <1>1, <1>8, <1>16
<1> QED
  BY <1>17

\* The immediate is what the formats of the manual say.
LEMMA ImmediatesAreRight ==
  ASSUME NEW row \in Rows, row.class # "OP", NEW w, NEW imm, imm = ImmGen(w, ImmSel(row)),
         NEW bitAt, bitAt = Holds(row.class)
  PROVE  /\ \A p \in DOMAIN bitAt : imm[bitAt[p]] = w[p]
         /\ \A k \in (0..31) \ {bitAt[p] : p \in DOMAIN bitAt} : imm[k] = IF k > bitAt[31] THEN w[31] ELSE 0
<1>1. CASE row.class \in {"OPIMM", "LOAD", "JALR"}
  <2>1. imm = ImmGen(w, "I") /\ bitAt = [p \in 20..31 |-> p - 20]
    BY <1>1 DEF ImmSel, Holds
  <2>2. \A p \in DOMAIN bitAt : imm[bitAt[p]] = w[p]
    BY <2>1, ImmediateI
  <2>3. ASSUME NEW k \in 0..31, k \notin {bitAt[p] : p \in DOMAIN bitAt}
        PROVE  imm[k] = IF k > bitAt[31] THEN w[31] ELSE 0
    <3>1. k > 11
      <4>1. k + 20 \in 20..31 => bitAt[k + 20] = k
        BY <2>1
      <4> QED
        BY <4>1, <2>1, <2>3
    <3> QED
      BY <2>1, <3>1, ImmediateI
  <2> QED
    BY <2>2, <2>3
<1>2. CASE row.class = "STORE"
  <2>1. imm = ImmGen(w, "S") /\ bitAt = [p \in (7..11) \union (25..31) |-> IF p < 12 THEN p - 7 ELSE p - 20]
    BY <1>2 DEF ImmSel, Holds
  <2>2. \A p \in DOMAIN bitAt : imm[bitAt[p]] = w[p]
    BY <2>1, ImmediateS
  <2>3. ASSUME NEW k \in 0..31, k \notin {bitAt[p] : p \in DOMAIN bitAt}
        PROVE  imm[k] = IF k > bitAt[31] THEN w[31] ELSE 0
    <3>1. k > 11
      <4>1. /\ k < 5 => k + 7 \in DOMAIN bitAt /\ bitAt[k + 7] = k
            /\ k \in 5..11 => k + 20 \in DOMAIN bitAt /\ bitAt[k + 20] = k
        BY <2>1
      <4> QED
        BY <4>1, <2>3
    <3> QED
      BY <2>1, <3>1, ImmediateS
  <2> QED
    BY <2>2, <2>3
<1>3. CASE row.class = "BRANCH"
  <2>1. imm = ImmGen(w, "B") /\ bitAt = [p \in (7..11) \union (25..31) |->
                    CASE p = 7 -> 11 [] p \in 8..11 -> p - 7 [] p = 31 -> 12 [] OTHER -> p - 20]
    BY <1>3 DEF ImmSel, Holds
  <2>2. \A p \in DOMAIN bitAt : imm[bitAt[p]] = w[p]
    BY <2>1, ImmediateB
  <2>3. ASSUME NEW k \in 0..31, k \notin {bitAt[p] : p \in DOMAIN bitAt}
        PROVE  imm[k] = IF k > bitAt[31] THEN w[31] ELSE 0
    <3>1. k = 0 \/ k > 12
      <4>1. /\ k \in 1..4 => k + 7 \in DOMAIN bitAt /\ bitAt[k + 7] = k
            /\ k \in 5..10 => k + 20 \in DOMAIN bitAt /\ bitAt[k + 20] = k
            /\ k = 11 => 7 \in DOMAIN bitAt /\ bitAt[7] = k
            /\ k = 12 => 31 \in DOMAIN bitAt /\ bitAt[31] = k
        BY <2>1
      <4> QED
        BY <4>1, <2>3
    <3> QED
      BY <2>1, <3>1, ImmediateB
  <2> QED
    BY <2>2, <2>3
<1>4. CASE row.class = "JAL"
  <2>1. imm = ImmGen(w, "J") /\ bitAt = [p \in 12..31 |->
                    CASE p < 20 -> p [] p = 20 -> 11 [] p = 31 -> 20 [] OTHER -> p - 20]
    BY <1>4 DEF ImmSel, Holds
  <2>2. \A p \in DOMAIN bitAt : imm[bitAt[p]] = w[p]
    BY <2>1, ImmediateJ
  <2>3. ASSUME NEW k \in 0..31, k \notin {bitAt[p] : p \in DOMAIN bitAt}
        PROVE  imm[k] = IF k > bitAt[31] THEN w[31] ELSE 0
    <3>1. k = 0 \/ k > 20
      <4>1. /\ k \in 1..10 => k + 20 \in DOMAIN bitAt /\ bitAt[k + 20] = k
            /\ k = 11 => 20 \in DOMAIN bitAt /\ bitAt[20] = k
            /\ k \in 12..19 => k \in DOMAIN bitAt /\ bitAt[k] = k
            /\ k = 20 => 31 \in DOMAIN bitAt /\ bitAt[31] = k
        BY <2>1
      <4> QED
        BY <4>1, <2>3
    <3> QED
      BY <2>1, <3>1, ImmediateJ
  <2> QED
    BY <2>2, <2>3
<1>5. CASE row.class \in {"LUI", "AUIPC"}
  <2>1. imm = ImmGen(w, "U") /\ bitAt = [p \in 12..31 |-> p]
    BY <1>5 DEF ImmSel, Holds
  <2>2. \A p \in DOMAIN bitAt : imm[bitAt[p]] = w[p]
    BY <2>1, ImmediateU
  <2>3. ASSUME NEW k \in 0..31, k \notin {bitAt[p] : p \in DOMAIN bitAt}
        PROVE  imm[k] = IF k > bitAt[31] THEN w[31] ELSE 0
    <3>1. k < 12
      <4>1. /\ k >= 12 => k \in DOMAIN bitAt /\ bitAt[k] = k
        BY <2>1
      <4> QED
        BY <4>1, <2>3
    <3> QED
      BY <2>1, <3>1, ImmediateU
  <2> QED
    BY <2>2, <2>3
<1> QED
  BY <1>1, <1>2, <1>3, <1>4, <1>5, RowClass DEF RowClasses

LEMMA AsEncoded ==
  ASSUME NEW row \in Rows, NEW free
  PROVE  Decodes(row, free)
<1> DEFINE w == WordOf(row, free)
           imm == Decoded32(w).imm
           bitAt == Holds(row.class)
<1>1. {r \in Rows : RowMatches(r, w)} = {row}
  BY MatchesOne
<1>2. RowOf(w) = row
  BY MatchesOne DEF RowOf
<1>3. imm = ImmGen(w, ImmSel(row))
  BY <1>2 DEF Decoded32
<1> HIDE DEF w, imm, bitAt
<1>4. row.class # "OP" =>
        /\ \A p \in DOMAIN bitAt : imm[bitAt[p]] = w[p]
        /\ \A k \in (0..31) \ {bitAt[p] : p \in DOMAIN bitAt} : imm[k] = IF k > bitAt[31] THEN w[31] ELSE 0
  BY <1>3, ImmediatesAreRight DEF bitAt
<1> QED
  BY <1>1, <1>4 DEF Decodes, w, imm, bitAt

\* The words that a row matches are those made from it.
LEMMA MatchedIsEncoded ==
  ASSUME NEW row \in Rows, NEW word \in [0..31 -> {0, 1}], RowMatches(row, word)
  PROVE  word = WordOf(row, {p \in 7..31 : word[p] = 1})
<1> DEFINE free == {p \in 7..31 : word[p] = 1}
           w == WordOf(row, free)
<1>1. /\ Slice(word, 6, 0) = [i \in 1..7 |-> word[7 - i]]
      /\ Slice(word, 14, 12) = [i \in 1..3 |-> word[15 - i]]
      /\ Slice(word, 31, 25) = [i \in 1..7 |-> word[32 - i]]
  BY DEF Slice
<1>2. /\ row.opcode = Slice(word, 6, 0)
      /\ row.funct3 # <<>> => row.funct3 = Slice(word, 14, 12)
      /\ row.funct7 # <<>> => row.funct7 = Slice(word, 31, 25)
  BY DEF RowMatches, Any
<1>3. /\ \A i \in 1..7 : row.opcode[i] = word[7 - i]
      /\ row.funct3 # <<>> => \A i \in 1..3 : row.funct3[i] = word[15 - i]
      /\ row.funct7 # <<>> => \A i \in 1..7 : row.funct7[i] = word[32 - i]
  <2>1. /\ \A i \in 1..7 : Slice(word, 6, 0)[i] = word[7 - i]
        /\ \A i \in 1..3 : Slice(word, 14, 12)[i] = word[15 - i]
        /\ \A i \in 1..7 : Slice(word, 31, 25)[i] = word[32 - i]
    BY <1>1
  <2> QED
    BY <2>1, <1>2, Zenon
<1>4. ASSUME NEW p \in 0..31
      PROVE  w[p] = word[p]
  <2>1. w[p] = CASE p < 7 -> row.opcode[7 - p]
                 [] p \in 12..14 /\ row.funct3 # <<>> -> row.funct3[15 - p]
                 [] p \in 25..31 /\ row.funct7 # <<>> -> row.funct7[32 - p]
                 [] OTHER -> IF p \in free THEN 1 ELSE 0
    BY DEF WordOf, Any
  <2>2. /\ p < 7 => 7 - p \in 1..7 /\ 7 - (7 - p) = p
        /\ p \in 12..14 => 15 - p \in 1..3 /\ 15 - (15 - p) = p
        /\ p \in 25..31 => 32 - p \in 1..7 /\ 32 - (32 - p) = p
    OBVIOUS
  <2>3. CASE p < 7
    BY <2>1, <2>2, <2>3, <1>3
  <2>4. CASE p \in 12..14 /\ row.funct3 # <<>>
    BY <2>1, <2>2, <2>4, <1>3
  <2>5. CASE p \in 25..31 /\ row.funct7 # <<>>
    BY <2>1, <2>2, <2>5, <1>3
  <2>6. CASE ~(p < 7 \/ (p \in 12..14 /\ row.funct3 # <<>>) \/ (p \in 25..31 /\ row.funct7 # <<>>))
    <3>1. w[p] = IF p \in free THEN 1 ELSE 0
      BY <2>1, <2>6
    <3>2. p \in 7..31 /\ word[p] \in {0, 1}
      <4>1. ~(p < 7)
        BY <2>6
      <4> QED
        BY <4>1
    <3> QED
      BY <3>1, <3>2
  <2> QED
    BY <2>3, <2>4, <2>5, <2>6
<1>5. word = [p \in 0..31 |-> word[p]] /\ w = [p \in 0..31 |-> w[p]]
  BY DEF WordOf
<1> HIDE DEF w
<1>6. word = w
  BY <1>4, <1>5
<1> QED
  BY <1>6 DEF w

\* Every word of 32 bits that matches a row of the control table matches no other, and has the
\* immediate that the formats of the manual give it (Instructions.scala, ImmGen.scala).
THEOREM EveryWordDecodes ==
  ASSUME NEW word \in [0..31 -> {0, 1}], NEW row \in Rows, RowMatches(row, word)
  PROVE  \E free \in SUBSET (7..31) : word = WordOf(row, free) /\ Decodes(row, free)
BY MatchedIsEncoded, AsEncoded

\* So do the words of each instruction, whichever of their free places hold a one.
THEOREM InstructionsDecode == DecodesAsEncoded
BY AsEncoded DEF DecodesAsEncoded
=============================================================================
