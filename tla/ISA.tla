--------------------------------- MODULE ISA ---------------------------------
(***************************************************************************)
(* What a program may rely on: the instructions of the base integer set,   *)
(* executed one after the other.  No pipeline, no control signals.  Two    *)
(* things follow the core rather than the RISC-V manual: a half word that  *)
(* starts at the last byte of a cell stays in that cell, and JALR keeps    *)
(* bit 0 of its target.                                                    *)
(***************************************************************************)
EXTENDS Memory

CONSTANT IOBase

VARIABLES
  prog,    \* the instruction memory, which no instruction changes
  next,    \* the address of the next instruction
  x,       \* the registers
  data     \* the data memory

isa == <<prog, next, x, data>>

Current == Decode[prog[IIndex(next)]]

Rs1 == x[Current.rs1]
Rs2 == x[Current.rs2]
EffAddr == Add(Rs1, Current.imm)

Jump(target) == next' = target
FallThrough  == next' = Add(next, 4)

WriteRd(v) ==
  /\ x' = IF Current.rd = 0 THEN x ELSE [x EXCEPT ![Current.rd] = v]
  /\ UNCHANGED <<prog, data>>

Compute ==
  /\ FallThrough
  /\ \/ Current.class = "OP"    /\ WriteRd(Alu(Current.alu, Rs1, Rs2))
     \/ Current.class = "OPIMM" /\ WriteRd(Alu(Current.alu, Rs1, Current.imm))
     \/ Current.class = "LUI"   /\ WriteRd(Current.imm)
     \/ Current.class = "AUIPC" /\ WriteRd(Add(next, Current.imm))

Link ==
  /\ \/ Current.class = "JAL"  /\ Jump(Add(next, Current.imm))
     \/ Current.class = "JALR" /\ Jump(EffAddr)
  /\ WriteRd(Add(next, 4))

Branch ==
  /\ Current.class = "BRANCH"
  /\ IF BranchTaken(Current.branch, Rs1, Rs2)
     THEN Jump(Add(next, Current.imm)) ELSE FallThrough
  /\ UNCHANGED <<prog, x, data>>

Load ==
  /\ Current.class = "LOAD"
  /\ FallThrough
  /\ WriteRd(DMemRead(data, EffAddr, Current.length, Current.sign))

\* A store outside data memory goes to the I/O bus, or nowhere.
Store ==
  /\ Current.class = "STORE"
  /\ FallThrough
  /\ data' = IF EffAddr >= DMemBase /\ EffAddr < IOBase
             THEN DMemWrite(data, EffAddr, Current.length, Rs2) ELSE data
  /\ UNCHANGED <<prog, x>>

\* A word that is no instruction is skipped.
Skip ==
  Current.class = "UNKNOWN" /\ FallThrough /\ UNCHANGED <<prog, x, data>>

Init ==
  /\ prog \in IMem /\ data \in DMem
  /\ next = 0 /\ x = [r \in RegIdx |-> 0]

Next == Compute \/ Link \/ Branch \/ Load \/ Store \/ Skip

Spec == Init /\ [][Next]_isa
=============================================================================
