------------------------------ MODULE DebugPort ------------------------------
(***************************************************************************)
(* What the debugger's port promises a host: every command it is given     *)
(* takes effect at once and completely.  Reads and writes walk through     *)
(* their memory word by word.                                              *)
(***************************************************************************)
EXTENDS Memory

CONSTANTS Ops, Args   \* the commands a host gives, and their arguments

VARIABLES
  code, data,      \* the two memories
  codeR, codeW,    \* where the next word of code is read, and written
  dataA,           \* where the next word of data is read or written
  out, showsPC,    \* the word last read, and whether the port shows it
  last             \* the last command

port == <<code, data, codeR, codeW, dataA, out, showsPC, last>>

Given(op, a) ==
  op \in Ops /\ a \in Args /\ last' = [op |-> op, arg |-> a]

Next4(a) == Add(a, 4)

SetCodeR(a) ==
  /\ Given("IMEMRA", a) /\ codeR' = a
  /\ UNCHANGED <<code, data, codeW, dataA, out, showsPC>>

SetCodeW(a) ==
  /\ Given("IMEMWA", a) /\ codeW' = a
  /\ UNCHANGED <<code, data, codeR, dataA, out, showsPC>>

SetData(a) ==
  /\ Given("DMEMRA", a) \/ Given("DMEMWA", a)
  /\ dataA' = a
  /\ UNCHANGED <<code, data, codeR, codeW, out, showsPC>>

ReadCode(a) ==
  /\ Given("IMEMRD", a)
  /\ out' = code[IIndex(codeR)] /\ showsPC' = FALSE
  /\ codeR' = Next4(codeR)
  /\ UNCHANGED <<code, data, codeW, dataA>>

ReadData(a) ==
  /\ Given("DMEMRD", a)
  /\ out' = ToWord(data[DIndex(dataA)]) /\ showsPC' = FALSE
  /\ dataA' = Next4(dataA)
  /\ UNCHANGED <<code, data, codeR, codeW>>

WriteCode(a) ==
  /\ Given("IMEMWD", a)
  /\ code' = [code EXCEPT ![IIndex(codeW)] = a]
  /\ codeW' = Next4(codeW)
  /\ UNCHANGED <<data, codeR, dataA, out, showsPC>>

WriteData(a) ==
  /\ Given("DMEMWD", a)
  /\ data' = [data EXCEPT ![DIndex(dataA)] = ToCell(a)]
  /\ dataA' = Next4(dataA)
  /\ UNCHANGED <<code, codeR, codeW, out, showsPC>>

ReadPCValue(a) ==
  /\ Given("READPC", a) /\ showsPC' = TRUE
  /\ UNCHANGED <<code, data, codeR, codeW, dataA, out>>

\* Commands to the core leave the port alone.
Pace(a) ==
  /\ \E op \in {"NOP", "STEP", "STOP", "START", "RESET"} : Given(op, a)
  /\ UNCHANGED <<code, data, codeR, codeW, dataA, out, showsPC>>

Init ==
  /\ code \in IMem /\ data \in DMem
  /\ codeR = 0 /\ codeW = 0 /\ dataA = 0
  /\ out = 0 /\ showsPC = FALSE
  /\ last = [op |-> "NOP", arg |-> 0]

Next ==
  \E a \in Args :
    \/ SetCodeR(a) \/ SetCodeW(a) \/ SetData(a)
    \/ ReadCode(a) \/ ReadData(a) \/ WriteCode(a) \/ WriteData(a)
    \/ ReadPCValue(a) \/ Pace(a)

Spec == Init /\ [][Next]_port
=============================================================================
