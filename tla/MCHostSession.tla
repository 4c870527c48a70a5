---------------------------- MODULE MCHostSession ----------------------------
(***************************************************************************)
(* HostSession with words of four bits, x0 only, two words of program and  *)
(* two cells of data.  The arguments are addresses, data and instructions: *)
(* nop and a store.  The tests' host finds the core in the state an FPGA   *)
(* powers up in, wedged, so that it does not execute the store; the others *)
(* find it so or running, and it does.                                     *)
(***************************************************************************)
EXTENDS HostSession

MCArgs == {0, 4}

\* START and STOP only set cpuEnable, which nothing reads.
MCOps == Commands \ {"START", "STOP"}

MCNop == [class |-> "OPIMM", alu |-> "ADD", branch |-> "XX", length |-> "X",
          sign |-> "U", rd |-> 0, rs1 |-> 0, rs2 |-> 0, imm |-> 0]

\* 4 is sw x0,4(x0), all else a nop.
MCDecode ==
  [w \in 0 .. 15 |->
     IF w # 4 THEN MCNop ELSE [MCNop EXCEPT !.class = "STORE", !.length = "W", !.imm = 4]]

\* The data wire matters to the commands that take an address, and to the
\* write cycle of the others, in which the enable is low.
Inputs(reset, enables, addressed, plain) ==
  LET In(commands, enable, values) ==
        [reset : {reset}, pcEnable : enables, dEnable : {enable},
         dControl : commands, dDataIn : values]
  IN In(addressed, TRUE, MCArgs) \cup In(plain, TRUE, {0})
     \cup In({"NOP"}, FALSE, MCArgs)

\* A host that uses the instruction memory while the core runs, and one that
\* uses the rest while it runs and pauses.
MCIMemInputs ==
  Inputs(FALSE, {TRUE}, {"IMEMRA", "IMEMWA"},
         {"IMEMRD", "IMEMWD", "STEP", "RESET"})
MCDMemInputs ==
  Inputs(FALSE, BOOLEAN, {"DMEMRA", "DMEMWA"},
         {"DMEMRD", "DMEMWD", "START", "STOP", "READPC"})
  \cup Inputs(TRUE, {FALSE}, {}, {"NOP"})

MCHosts  == {MCIMemInputs, MCDMemInputs}
MCInputs == MCIMemInputs \cup MCDMemInputs

\* No store, or one.
MCIMem == {[a \in 0 .. 1 |-> 4 * a * n] : n \in 0 .. 1}
MCDMem == {[c \in 0 .. 1 |-> [k \in 0 .. 3 |-> 0]]}
=============================================================================
