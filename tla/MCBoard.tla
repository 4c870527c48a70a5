------------------------------- MODULE MCBoard -------------------------------
(***************************************************************************)
(* Board with words of four bits, ROMs of up to four words, four words of  *)
(* code and two cells of data at 8 .. 15.  The core has powered up as an   *)
(* FPGA does, wedged, so that all there is comes from the board.           *)
(***************************************************************************)
EXTENDS Board

MCNop == [class |-> "OPIMM", alu |-> "ADD", branch |-> "XX", length |-> "X",
          sign |-> "U", rd |-> 0, rs1 |-> 0, rs2 |-> 0, imm |-> 0]

MCDecode == [w \in 0 .. 15 |-> MCNop]

MCIRom == [k \in 0 .. 2 |-> 1 + k]
MCDRom == [k \in 0 .. 1 |-> 5 + k]
MCBeyond == [k \in 0 .. 3 |-> 9 + k]

\* A word of code; a word of data, with the core running; the step switch;
\* reset.
Off == [reset |-> FALSE, run |-> FALSE, step |-> FALSE, addr |-> 4]
MCSwitches == {Off, [Off EXCEPT !.run = TRUE, !.addr = 12],
               [Off EXCEPT !.step = TRUE], [Off EXCEPT !.reset = TRUE]}

MCIMem == {[a \in 0 .. 3 |-> 0]}
MCDMem == {[c \in 0 .. 1 |-> [k \in 0 .. 3 |-> 0]]}

\* What the proof of LoadsCode assumes of a ROM holds of this one.
ASSUME Fits == CodeFits
=============================================================================
