----------------------------- MODULE MCCoreAlone -----------------------------
(***************************************************************************)
(* CoreAlone with words of three bits and registers x0 and x1: one         *)
(* instruction for each kind the hazard logic of the core tells apart, the *)
(* core running, paused or in reset.  Pausing matters to pc alone, so that *)
(* few words will do.                                                      *)
(***************************************************************************)
EXTENDS CoreAlone

Ins(class, rd, rs1, rs2, imm) ==
  [class |-> class, alu |-> "ADD", branch |-> "XX", length |-> "X",
   sign |-> "U", rd |-> rd, rs1 |-> rs1, rs2 |-> rs2, imm |-> imm]

\* 0 nop; 1 addi x1,x0,4; 2 add x1,x1,x1; 3 lw x1,4(x1); 4 jalr x1,4(x1);
\* 5 bne x1,x0,4; 6 sw x1,4(x1), whose rd field is 1; 7 an illegal word.
MCDecode ==
  [w \in 0 .. 7 |->
     CASE w = 0 -> Ins("OPIMM", 0, 0, 0, 0)
       [] w = 1 -> Ins("OPIMM", 1, 0, 1, 4)
       [] w = 2 -> Ins("OP", 1, 1, 1, 0)
       [] w = 3 -> [Ins("LOAD", 1, 1, 1, 4) EXCEPT !.length = "W", !.sign = "S"]
       [] w = 4 -> Ins("JALR", 1, 1, 1, 4)
       [] w = 5 -> [Ins("BRANCH", 0, 1, 0, 4) EXCEPT !.branch = "NE"]
       [] w = 6 -> [Ins("STORE", 1, 1, 1, 4) EXCEPT !.length = "W"]
       [] w = 7 -> Ins("UNKNOWN", 1, 1, 0, 0)]

Drive(words, reset, enable) ==
  [reset : {reset}, enable : {enable}, pcReset : {FALSE}, pcStep : {FALSE},
   imemOut : words, dmemDR : {4}]

\* Running; paused at a load or a jump; reset, which makes the word a nop.
MCInputs == Drive(0 .. 7, FALSE, TRUE) \cup Drive({3, 4}, FALSE, FALSE)
            \cup Drive({0}, TRUE, TRUE)
=============================================================================
